---- MODULE Spec2Model ----
(***************************************************************************)
(* Discount anomaly analysis engine of the Bilka price monitor:            *)
(*   src/src/analysis/anomaly_detector.py  (AnomalyDetector)               *)
(*   src/src/analysis/price_validator.py   (PriceValidator)                *)
(*   src/src/analysis/discount_analyzer.py (DiscountAnalyzer)              *)
(*                                                                         *)
(* Units.  Prices are integers in 1/100 DKK, discount percentages are      *)
(* integers in 1/100 percent.  A confidence score is an integer in units of *)
(* 1/40000: a decimal d.dddd is 4 * 10^4 * d; a double that is one ulp     *)
(* above or below the double of a two-decimal literal is that value +1 or  *)
(* -1; a real number strictly between two neighbouring four-decimal values *)
(* k and k+1 is 4k + 2.  The order of the integers is the order of the     *)
(* doubles the program compares.                                           *)
(***************************************************************************)
EXTENDS Integers, Sequences, FiniteSets, TLC

VARIABLES
    batch,           \* products_df: the rows of the input DataFrame
    columns,         \* products_df.columns
    min_confidence,  \* AnomalyDetector.min_confidence
    pc,              \* position in the operation being run
    anomalies,       \* detect_anomalies: the local list `anomalies`
    result,          \* detect_anomalies: the returned list
    args,            \* validate_product_price: (regular, sale, discount)
    vresult,         \* validate_product_price: the returned ValidationResult
    vreport,         \* validate_product_dataset: the PriceValidationReport
    analysis,        \* analyze_discounts: the returned DiscountAnalysis
    now,             \* the wall clock datetime.now() reads
    reports,         \* generate_discount_report: the outcomes of the calls made
    validation,      \* generate_validation_report: the outcome of the call
    calc,            \* the two discount calculations applied to (regular, sale)
    ran,             \* the detectors run so far, in the order they ran
    incoming,        \* the scraped products still to be stored
    products,        \* the rows of the products table
    price_history,   \* the rows of the price_history table
    outcome          \* what the last storage or monitor call returned

analysis_vars == <<batch, columns, min_confidence, anomalies, result,
                   args, vresult, vreport, analysis>>
report_vars == <<now, reports, validation>>
calc_vars == <<calc>>
order_vars == <<ran>>
store_vars == <<incoming, products, price_history, outcome>>

vars == <<pc, analysis_vars, report_vars, calc_vars, order_vars, store_vars>>

(***************************************************************************)
(* Absent values.  NaN is the float a numeric DataFrame column holds for a *)
(* missing value, None is Python's None passed as an argument.             *)
(***************************************************************************)
NaN == -2000000002
None == -2000000001

IsNum(x) == x # NaN /\ x # None

\* Python truthiness of a float or None: None and 0 are falsy, NaN is truthy.
Truthy(x) == x # None /\ x # 0

\* Comparisons of floats: every comparison with NaN is False.
Lt(a, b) == IsNum(a) /\ IsNum(b) /\ a < b
Gt(a, b) == IsNum(a) /\ IsNum(b) /\ a > b
Ge(a, b) == IsNum(a) /\ IsNum(b) /\ a >= b
Le(a, b) == IsNum(a) /\ IsNum(b) /\ a <= b

Abs(x) == IF x < 0 THEN -x ELSE x
Min(a, b) == IF a <= b THEN a ELSE b

RECURSIVE Gcd(_, _)
Gcd(a, b) == IF b = 0 THEN a ELSE Gcd(b, a % b)

\* a/b < c/d for a, c >= 0 and b, d > 0, by continued fractions (no product
\* is formed, so no 32-bit overflow).
RECURSIVE FracLess(_, _, _, _)
FracLess(a, b, c, d) ==
    LET q1 == a \div b
        q2 == c \div d
        r1 == a % b
        r2 == c % d
    IN  IF q1 # q2 THEN q1 < q2
        ELSE IF r2 = 0 THEN FALSE
        ELSE IF r1 = 0 THEN TRUE
        ELSE FracLess(d, r2, b, r1)

FracLeq(a, b, c, d) == ~FracLess(c, d, a, b)

(***************************************************************************)
(* Confidence scores.                                                      *)
(***************************************************************************)
ConfOne == 40000                    \* 1.0
Conf(h) == 400 * h                  \* the double of the literal 0.hh

\* acc + 0.xx in IEEE-754 double arithmetic, for the accumulations the
\* detectors perform (acc in confidence units, x in hundredths).  The pairs
\* listed are those whose double sum is not the double of the decimal sum.
FloatAddExceptions ==
    { <<4000, 20, 12001>>, <<6000, 30, 17999>>, <<8000, 40, 24001>>,
      <<12000, 15, 17999>>, <<16000, 20, 24001>>, <<17999, 15, 24000>>,
      <<17999, 25, 28000>>, <<18000, 40, 34001>>, <<22000, 15, 28001>>,
      <<26000, 20, 34001>>, <<34001, 15, 40000>> }

FAdd(acc, x) ==
    IF \E e \in FloatAddExceptions : e[1] = acc /\ e[2] = x
    THEN (CHOOSE e \in FloatAddExceptions : e[1] = acc /\ e[2] = x)[3]
    ELSE acc + Conf(x)

\* The confidence unit of the real number num/den (num >= 0, den > 0),
\* capped at 1.0: 4k when num/den is the four-decimal value k, 4k + 2 when
\* it lies strictly between k and k + 1.
RECURSIVE FloorSearch(_, _, _, _)
FloorSearch(lo, hi, num, den) ==
    \* largest k in lo..hi with k/10000 <= num/den, given lo/10000 <= num/den
    IF lo = hi THEN lo
    ELSE LET mid == (lo + hi + 1) \div 2
         IN  IF FracLeq(mid, 10000, num, den)
             THEN FloorSearch(mid, hi, num, den)
             ELSE FloorSearch(lo, mid - 1, num, den)

ConfOfFrac(num, den) ==
    IF FracLeq(1, 1, num, den) THEN ConfOne
    ELSE LET k == FloorSearch(0, 9999, num, den)
         IN  IF FracLeq(num, den, k, 10000) THEN 4 * k ELSE 4 * k + 2

(***************************************************************************)
(* Series helpers (pandas).                                                *)
(***************************************************************************)
RECURSIVE SumSeq(_)
SumSeq(s) == IF s = <<>> THEN 0 ELSE Head(s) + SumSeq(Tail(s))

RECURSIVE SumSqSeq(_)
SumSqSeq(s) == IF s = <<>> THEN 0 ELSE Head(s) * Head(s) + SumSqSeq(Tail(s))

RECURSIVE GcdSeq(_)
GcdSeq(s) == IF s = <<>> THEN 0 ELSE Gcd(Abs(Head(s)), GcdSeq(Tail(s)))

MapSeq(s, Op(_)) == [i \in 1..Len(s) |-> Op(s[i])]

\* the values of s in ascending order (s holds numbers only)
RECURSIVE InsertSorted(_, _)
InsertSorted(s, x) ==
    IF s = <<>> THEN <<x>>
    ELSE IF x < Head(s) THEN <<x>> \o s
    ELSE <<Head(s)>> \o InsertSorted(Tail(s), x)

RECURSIVE SortAsc(_)
SortAsc(s) == IF s = <<>> THEN <<>> ELSE InsertSorted(SortAsc(Tail(s)), Head(s))

IsNumber(x) == IsNum(x)

\* Series.dropna()
DropNa(s) == SelectSeq(s, IsNumber)

\* row.get('discount_percentage', 0): the default applies when the column
\* is not in the frame.
Discount(row, cols) ==
    IF "discount_percentage" \in cols THEN row.discount_percentage ELSE 0

\* df[df['discount_percentage'] > 0]: the rows with a positive discount, in
\* frame order.
IsDiscounted(row) == Gt(row.discount_percentage, 0)
Discounted(rows) == SelectSeq(rows, IsDiscounted)

DiscountOf(row) == row.discount_percentage

(***************************************************************************)
(* AnomalyResult.  pid is the row the finding was made for; the program's  *)
(* AnomalyResult carries no identifier, the field only serves to state     *)
(* properties and is never read by an operation.                           *)
(***************************************************************************)
AnomalyResult(row, cols, type, confidence) ==
    [ pid                 |-> row.id,
      product_name        |-> row.name,
      anomaly_type        |-> type,
      confidence_score    |-> confidence,
      current_price       |-> row.current_price,
      original_price      |-> row.original_price,
      discount_percentage |-> Discount(row, cols) ]

(***************************************************************************)
(* Method 1: Z-score.  With e the discounts divided by their common        *)
(* divisor (the Z-score does not depend on the unit), n their number,      *)
(* S = sum e, Q = sum e^2:                                                 *)
(*   mean = S/n,  std^2 = (nQ - S^2) / (n (n-1))   (pandas std, ddof = 1)  *)
(*   z    = (e - mean)/std,  z^2 = (n-1)(ne - S)^2 / (n (nQ - S^2)).       *)
(***************************************************************************)
z_score_threshold_x10 == 25

\* n, S and n (nQ - S^2) of the discounted rows, and the unit g
ZStats(rows) ==
    LET d == MapSeq(Discounted(rows), DiscountOf)
        g == GcdSeq(d)
        e == [i \in 1..Len(d) |-> d[i] \div g]
        n == Len(e)
        S == SumSeq(e)
    IN  [ n |-> n, g |-> g, S |-> S, varN |-> n * (n * SumSqSeq(e) - S * S) ]

\* std_discount == 0
std_is_zero(st) == st.varN = 0

\* n*e - S for a discounted row (the sign of its z-score)
ZDev(st, row) == st.n * (row.discount_percentage \div st.g) - st.S

\* (n-1)(ne - S)^2, the numerator of z^2 over st.varN
ZSqNum(st, row) == (st.n - 1) * ZDev(st, row) * ZDev(st, row)

\* z_score > t/10, for a frame whose std is not zero
ZExceeds(st, row, t) ==
    /\ ZDev(st, row) > 0
    /\ FracLess(t * t, 100, ZSqNum(st, row), st.varN)

\* min(abs(z_score) / 5.0, 1.0) in confidence units, for z_score > 0:
\* with k the largest four-decimal value such that (k/2000)^2 <= z^2
RECURSIVE ZFloorSearch(_, _, _, _)
ZFloorSearch(lo, hi, num, den) ==
    IF lo = hi THEN lo
    ELSE LET mid == (lo + hi + 1) \div 2
         IN  IF FracLeq(mid * mid, 4000000, num, den)
             THEN ZFloorSearch(mid, hi, num, den)
             ELSE ZFloorSearch(lo, mid - 1, num, den)

ZConfidence(st, row) ==
    LET num == ZSqNum(st, row)
        den == st.varN
    IN  IF FracLeq(25, 1, num, den) THEN ConfOne
        ELSE LET k == ZFloorSearch(0, 9999, num, den)
             IN  IF FracLeq(num, den, k * k, 4000000) THEN 4 * k ELSE 4 * k + 2

\* variant: every outlier is reported, whatever its confidence
ZRowFindingUngated(st, cols, minconf, row) ==
    IF ZExceeds(st, row, z_score_threshold_x10)
    THEN <<AnomalyResult(row, cols, "STATISTICAL_OUTLIER", ZConfidence(st, row))>>
    ELSE <<>>

ZRowFinding(st, cols, minconf, row) ==
    IF ZExceeds(st, row, z_score_threshold_x10)
    THEN LET confidence == ZConfidence(st, row)
         IN  IF confidence >= minconf
             THEN <<AnomalyResult(row, cols, "STATISTICAL_OUTLIER", confidence)>>
             ELSE <<>>
    ELSE <<>>

RECURSIVE ZCollect(_, _, _, _)
ZCollect(st, cols, minconf, todo) ==
    IF todo = <<>> THEN <<>>
    ELSE ZRowFinding(st, cols, minconf, Head(todo))
         \o ZCollect(st, cols, minconf, Tail(todo))

\* variant: no guard on the standard deviation and the mean taken over the
\* whole column; dividing by a zero std then gives +inf (confidence 1.0)
\* for every discounted row above that mean
_detect_zscore_anomalies_unguarded(rows, cols, minconf) ==
    IF "discount_percentage" \notin cols THEN <<>>
    ELSE LET discounted == Discounted(rows)
             st == ZStats(rows)
             column == DropNa([i \in 1..Len(rows) |-> rows[i].discount_percentage])
             above == SelectSeq(discounted,
                        LAMBDA r : r.discount_percentage * Len(column) > SumSeq(column))
         IN  IF Len(discounted) < 3 THEN <<>>
             ELSE IF std_is_zero(st)
                  THEN [i \in 1..Len(above) |->
                          AnomalyResult(above[i], cols, "STATISTICAL_OUTLIER", ConfOne)]
             ELSE ZCollect(st, cols, minconf, discounted)

_detect_zscore_anomalies(rows, cols, minconf) ==
    IF "discount_percentage" \notin cols THEN <<>>
    ELSE LET discounted == Discounted(rows)
             st == ZStats(rows)
         IN  IF Len(discounted) < 3 THEN <<>>
             ELSE IF std_is_zero(st) THEN <<>>
             ELSE ZCollect(st, cols, minconf, discounted)

(***************************************************************************)
(* Method 2: IQR.  Quantiles are pandas' default (linear interpolation):   *)
(* quantile(q) of the sorted values s[1..n] is s[i+1] + f (s[i+2]-s[i+1])  *)
(* with i + f = q (n-1).  Values are kept times 4 to stay integral.        *)
(***************************************************************************)
iqr_multiplier_x10 == 15

\* 4 * s.quantile(quarters / 4)
QuantileX4(s, quarters) ==
    LET m == (Len(s) - 1) * quarters
        i == m \div 4
        r == m % 4
    IN  IF r = 0 THEN 4 * s[i + 1]
        ELSE 4 * s[i + 1] + r * (s[i + 2] - s[i + 1])

\* 4 * IQR and 40 * upper_bound, upper_bound = Q3 + iqr_multiplier * IQR
IqrStats(rows) ==
    LET s  == SortAsc(MapSeq(Discounted(rows), DiscountOf))
        q1 == QuantileX4(s, 1)
        q3 == QuantileX4(s, 3)
    IN  [ iqr4 |-> q3 - q1, ub40 |-> 10 * q3 + iqr_multiplier_x10 * (q3 - q1) ]

IqrExceeds(st, row) == 40 * row.discount_percentage > st.ub40

\* min(0.5 + deviation * 0.2, 1.0) with
\* deviation = (discount - upper_bound) / IQR if IQR > 0 else 0
IqrConfidence(st, row) ==
    IF st.iqr4 > 0
    THEN ConfOfFrac(25 * st.iqr4 + (40 * row.discount_percentage - st.ub40),
                    50 * st.iqr4)
    ELSE Conf(50)

IqrRowFinding(st, cols, minconf, row) ==
    IF IqrExceeds(st, row)
    THEN LET confidence == IqrConfidence(st, row)
         IN  IF confidence >= minconf
             THEN <<AnomalyResult(row, cols, "IQR_OUTLIER", confidence)>>
             ELSE <<>>
    ELSE <<>>

RECURSIVE IqrCollect(_, _, _, _)
IqrCollect(st, cols, minconf, todo) ==
    IF todo = <<>> THEN <<>>
    ELSE IqrRowFinding(st, cols, minconf, Head(todo))
         \o IqrCollect(st, cols, minconf, Tail(todo))

_detect_iqr_anomalies(rows, cols, minconf) ==
    IF "discount_percentage" \notin cols THEN <<>>
    ELSE LET discounted == Discounted(rows)
         IN  IF Len(discounted) < 4 THEN <<>>
             ELSE IqrCollect(IqrStats(rows), cols, minconf, discounted)

(***************************************************************************)
(* Category statistics used by the fake-discount detector:                 *)
(* df[df['category'] == category]['current_price'] and its median.         *)
(***************************************************************************)
NoCategory == ""

CurrentOf(row) == row.current_price

\* the current_price column of the rows of the category; a row without a
\* category compares unequal to every value, itself included
CategoryPrices(rows, category) ==
    IF category = NoCategory THEN <<>>
    ELSE MapSeq(SelectSeq(rows, LAMBDA r : r.category = category), CurrentOf)

\* 2 * Series.median(): NaN entries are skipped, NaN when none is left
MedianX2(prices) ==
    LET s == SortAsc(DropNa(prices))
        n == Len(s)
    IN  IF n = 0 THEN NaN
        ELSE IF n % 2 = 1 THEN 2 * s[(n + 1) \div 2]
        ELSE s[n \div 2] + s[n \div 2 + 1]

(***************************************************************************)
(* Method 3: fake discounts.                                               *)
(***************************************************************************)
\* Indicator 1: original price is a round number (+0.15 / +0.10)
FakeRoundOriginal(row) ==
    IF Ge(row.original_price, 10000) /\ row.original_price % 10000 = 0 THEN 15
    ELSE IF Ge(row.original_price, 5000) /\ row.original_price % 5000 = 0 THEN 10
    ELSE 0

\* Indicator 2: discount is a round percentage (+0.10)
FakeRoundDiscount(row, cols) ==
    LET discount == Discount(row, cols)
    IN  IF IsNum(discount) /\ discount % 1000 = 0 /\ discount >= 5000 THEN 10 ELSE 0

\* `len(cat_prices) > 5` and `len(category_prices) > 3`
above_market_samples == 5
average_price_samples == 3

\* Indicator 3: original price above 2.5 x the category median (+0.30)
FakeAboveMarket(rows, row) ==
    LET cat_prices == CategoryPrices(rows, row.category)
        median_x2  == MedianX2(cat_prices)
    IN  IF /\ row.category # NoCategory
           /\ Len(cat_prices) > above_market_samples
           /\ IsNum(median_x2) /\ IsNum(row.original_price)
           /\ 4 * row.original_price > 5 * median_x2
        THEN 30 ELSE 0

\* abs(current - median) / median < 0.2 on doubles: a zero median gives
\* inf or NaN (never below 0.2), a negative median a quotient <= -0.0
WithinFifthOfMedian(current, median_x2) ==
    /\ IsNum(current) /\ IsNum(median_x2)
    /\ \/ median_x2 < 0
       \/ median_x2 > 0 /\ 5 * Abs(2 * current - median_x2) < median_x2

\* Indicator 4: high discount but the final price is average (+0.25)
FakeAveragePrice(rows, cols, row) ==
    LET category_prices == CategoryPrices(rows, row.category)
    IN  IF /\ Ge(Discount(row, cols), 6000)
           /\ Len(category_prices) > average_price_samples
           /\ WithinFifthOfMedian(row.current_price, MedianX2(category_prices))
        THEN 25 ELSE 0

\* the accumulation `confidence += ...` in source order
AddIf(acc, x) == IF x = 0 THEN acc ELSE FAdd(acc, x)

FakeConfidence(rows, cols, row) ==
    AddIf(AddIf(AddIf(AddIf(0, FakeRoundOriginal(row)),
                      FakeRoundDiscount(row, cols)),
                FakeAboveMarket(rows, row)),
          FakeAveragePrice(rows, cols, row))

\* variant: no record is skipped
FakeSkipsNothing(row, cols) == FALSE

\* `if not current or not original or discount == 0: continue`
FakeSkips(row, cols) ==
    \/ ~Truthy(row.current_price)
    \/ ~Truthy(row.original_price)
    \/ Discount(row, cols) = 0

FakeRowFinding(rows, cols, minconf, row) ==
    IF FakeSkips(row, cols) THEN <<>>
    ELSE LET confidence == FakeConfidence(rows, cols, row)
         IN  IF confidence >= minconf
             THEN <<AnomalyResult(row, cols, "FAKE_DISCOUNT", Min(confidence, ConfOne))>>
             ELSE <<>>

RECURSIVE FakeCollect(_, _, _, _)
FakeCollect(rows, cols, minconf, todo) ==
    IF todo = <<>> THEN <<>>
    ELSE FakeRowFinding(rows, cols, minconf, Head(todo))
         \o FakeCollect(rows, cols, minconf, Tail(todo))

_detect_fake_discounts(rows, cols, minconf) == FakeCollect(rows, cols, minconf, rows)

(***************************************************************************)
(* Method 4: too good to be true.                                          *)
(***************************************************************************)
BrandNames == {"Sony TV"}

\* 'samsung' in name.lower() or 'apple' in name.lower() or 'sony' in name.lower()
IsPremiumBrand(name) == name \in BrandNames

\* Factor 1: extreme discount
TgtbtDiscountTier(discount) ==
    IF Ge(discount, 9500) THEN 40
    ELSE IF Ge(discount, 9000) THEN 30
    ELSE IF Ge(discount, 8000) THEN 20
    ELSE 0

\* Factor 2: large absolute savings (original - current, NaN when either is)
TgtbtSavingsTier(row) ==
    IF ~Truthy(row.original_price) THEN 0
    ELSE IF ~IsNum(row.original_price) \/ ~IsNum(row.current_price) THEN 0
    ELSE IF row.original_price - row.current_price > 500000 THEN 25
    ELSE IF row.original_price - row.current_price > 200000 THEN 15
    ELSE 0

\* Factor 3: premium brand at a bargain price
TgtbtBrand(row, cols) ==
    IF /\ IsPremiumBrand(row.name)
       /\ Lt(row.current_price, 50000)
       /\ Gt(Discount(row, cols), 7000)
    THEN 20 ELSE 0

\* Factor 4: current price extremely low
TgtbtLowPrice(row) ==
    IF /\ Lt(row.current_price, 5000)
       /\ Truthy(row.original_price)
       /\ Gt(row.original_price, 50000)
    THEN 15 ELSE 0

tgtbt_score(row, cols) ==
    AddIf(AddIf(AddIf(AddIf(0, TgtbtDiscountTier(Discount(row, cols))),
                      TgtbtSavingsTier(row)),
                TgtbtBrand(row, cols)),
          TgtbtLowPrice(row))

\* variant: no record is skipped
TgtbtSkipsNothing(row, cols) == FALSE

\* `if not current or discount == 0: continue`
TgtbtSkips(row, cols) ==
    \/ ~Truthy(row.current_price)
    \/ Discount(row, cols) = 0

TgtbtRowFinding(cols, minconf, row) ==
    IF ~TgtbtSkips(row, cols) /\ tgtbt_score(row, cols) >= minconf
    THEN <<AnomalyResult(row, cols, "TOO_GOOD_TO_BE_TRUE",
                         Min(tgtbt_score(row, cols), ConfOne))>>
    ELSE <<>>

RECURSIVE TgtbtCollect(_, _, _)
TgtbtCollect(cols, minconf, todo) ==
    IF todo = <<>> THEN <<>>
    ELSE TgtbtRowFinding(cols, minconf, Head(todo))
         \o TgtbtCollect(cols, minconf, Tail(todo))

_detect_too_good_to_be_true(rows, cols, minconf) == TgtbtCollect(cols, minconf, rows)

(***************************************************************************)
(* Method 5: price manipulation patterns.                                  *)
(***************************************************************************)
\* Pattern 1: original % 1 > 0.98 and current % 1 < 0.05
ManipNinetyNine(row) ==
    IF /\ IsNum(row.original_price) /\ row.original_price % 100 > 98
       /\ IsNum(row.current_price) /\ row.current_price % 100 < 5
    THEN 15 ELSE 0

\* Pattern 2: discount in [50.0, 75.0, 66.7, 33.3]
CommonDiscounts == {5000, 7500, 6670, 3330}
ManipCommonDiscount(row, cols) ==
    IF Discount(row, cols) \in CommonDiscounts THEN 10 ELSE 0

\* Pattern 3: original and abs(current * 2 - original) < 1
ManipDoubled(row) ==
    IF /\ Truthy(row.original_price)
       /\ IsNum(row.original_price) /\ IsNum(row.current_price)
       /\ Abs(row.current_price * 2 - row.original_price) < 100
    THEN 20 ELSE 0

manipulation_score(row, cols) ==
    AddIf(AddIf(AddIf(0, ManipNinetyNine(row)),
                ManipCommonDiscount(row, cols)),
          ManipDoubled(row))

\* variant: no record is skipped
ManipSkipsNothing(row, cols) == FALSE

\* `if not current or not original or discount == 0: continue`
ManipSkips(row, cols) ==
    \/ ~Truthy(row.current_price)
    \/ ~Truthy(row.original_price)
    \/ Discount(row, cols) = 0

ManipRowFinding(cols, row) ==
    IF ~ManipSkips(row, cols) /\ manipulation_score(row, cols) >= Conf(25)
    THEN <<AnomalyResult(row, cols, "PRICE_MANIPULATION",
                         Min(FAdd(manipulation_score(row, cols), 40), ConfOne))>>
    ELSE <<>>

RECURSIVE ManipCollect(_, _)
ManipCollect(cols, todo) ==
    IF todo = <<>> THEN <<>>
    ELSE ManipRowFinding(cols, Head(todo)) \o ManipCollect(cols, Tail(todo))

_detect_price_manipulation(rows, cols) == ManipCollect(cols, rows)

(***************************************************************************)
(* Deduplication and ranking.                                              *)
(***************************************************************************)
\* the position of the entry of seen_products whose key is name, 0 if none
RECURSIVE IndexOfName(_, _, _)
IndexOfName(seen, name, i) ==
    IF i > Len(seen) THEN 0
    ELSE IF seen[i].product_name = name THEN i
    ELSE IndexOfName(seen, name, i + 1)

\* variant: the finding of lower confidence is kept
DedupStepKeepLower(seen, anomaly) ==
    LET i == IF \E k \in 1..Len(seen) : seen[k].product_name = anomaly.product_name
             THEN CHOOSE k \in 1..Len(seen) : seen[k].product_name = anomaly.product_name
             ELSE 0
    IN  IF i = 0 THEN Append(seen, anomaly)
        ELSE IF anomaly.confidence_score < seen[i].confidence_score
             THEN [seen EXCEPT ![i] = anomaly]
             ELSE seen

\* one iteration of the loop: seen is the dict's values in insertion order
\* (replacing the value of a key keeps the key's position)
DedupStep(seen, anomaly) ==
    LET i == IndexOfName(seen, anomaly.product_name, 1)
    IN  IF i = 0 THEN Append(seen, anomaly)
        ELSE IF anomaly.confidence_score > seen[i].confidence_score
             THEN [seen EXCEPT ![i] = anomaly]
             ELSE seen

RECURSIVE DedupLoop(_, _)
DedupLoop(seen, todo) ==
    IF todo = <<>> THEN seen
    ELSE DedupLoop(DedupStep(seen, Head(todo)), Tail(todo))

\* variant: every finding is kept
_deduplicate_anomalies_keep_all(found) == found

_deduplicate_anomalies(found) == DedupLoop(<<>>, found)

\* sorted(anomalies, key=confidence_score, reverse=True): stable, elements
\* of equal confidence keep their relative order
\* variant: ascending order (reverse=True left out)
RECURSIVE InsertByConfidenceAscending(_, _)
InsertByConfidenceAscending(s, x) ==
    IF s = <<>> THEN <<x>>
    ELSE IF x.confidence_score <= Head(s).confidence_score THEN <<x>> \o s
    ELSE <<Head(s)>> \o InsertByConfidenceAscending(Tail(s), x)

RECURSIVE InsertByConfidence(_, _)
InsertByConfidence(s, x) ==
    IF s = <<>> THEN <<x>>
    ELSE IF x.confidence_score >= Head(s).confidence_score THEN <<x>> \o s
    ELSE <<Head(s)>> \o InsertByConfidence(Tail(s), x)

RECURSIVE SortByConfidence(_)
SortByConfidence(s) ==
    IF s = <<>> THEN <<>>
    ELSE InsertByConfidence(SortByConfidence(Tail(s)), Head(s))

(***************************************************************************)
(* PriceValidator.validate_product_price.                                  *)
(***************************************************************************)
min_price_cents == 1             \* rules['min_price'] = 0.01 DKK
max_price_cents == 10000000      \* rules['max_price'] = 100000 DKK
max_discount == 9500             \* rules['max_discount'] = 95 percent
discount_tolerance == 100        \* 1.0 percentage point

\* a/b < c/d for b, d > 0 and a, c of any sign
SFracLess(a, b, c, d) ==
    IF a < 0 /\ c >= 0 THEN TRUE
    ELSE IF a >= 0 /\ c < 0 THEN FALSE
    ELSE IF a >= 0 THEN FracLess(a, b, c, d)
    ELSE FracLess(-c, d, -a, b)

\* Rule 1: missing prices
Rule1Errors(regular_price, sale_price) ==
    IF regular_price = None /\ sale_price = None THEN <<"MISSING_PRICES">> ELSE <<>>

\* Rule 2: price range, for one price
PriceRangeErrors(price, negative_code, excessive_code) ==
    IF price = None THEN <<>>
    ELSE IF Lt(price, min_price_cents) THEN <<negative_code>>
    ELSE IF Gt(price, max_price_cents) THEN <<excessive_code>>
    ELSE <<>>

Rule2Errors(regular_price, sale_price) ==
    PriceRangeErrors(regular_price, "NEGATIVE_REGULAR_PRICE", "EXCESSIVE_REGULAR_PRICE")
    \o PriceRangeErrors(sale_price, "NEGATIVE_SALE_PRICE", "EXCESSIVE_SALE_PRICE")

\* Rule 3: price relationship
Rule3Errors(regular_price, sale_price) ==
    IF regular_price # None /\ sale_price # None /\ Gt(sale_price, regular_price)
    THEN <<"INVALID_PRICE_RELATIONSHIP">> ELSE <<>>

\* Rule 4: discount percentage
Rule4Errors(discount_percentage) ==
    IF discount_percentage = None THEN <<>>
    ELSE IF Lt(discount_percentage, 0) THEN <<"NEGATIVE_DISCOUNT">>
    ELSE IF Gt(discount_percentage, max_discount) THEN <<"EXCESSIVE_DISCOUNT">>
    ELSE <<>>

\* abs(calculated_discount - discount_percentage) > 1.0 with
\* calculated_discount = (regular - sale) / regular * 100
DiscountMismatch(regular_price, sale_price, discount_percentage) ==
    /\ IsNum(sale_price) /\ IsNum(discount_percentage)
    /\ \/ SFracLess(discount_percentage + discount_tolerance, 10000,
                    regular_price - sale_price, regular_price)
       \/ SFracLess(regular_price - sale_price, regular_price,
                    discount_percentage - discount_tolerance, 10000)

\* Rule 5: calculated against provided discount
Rule5Errors(regular_price, sale_price, discount_percentage) ==
    IF /\ regular_price # None /\ sale_price # None /\ discount_percentage # None
       /\ Gt(regular_price, 0)
       /\ DiscountMismatch(regular_price, sale_price, discount_percentage)
    THEN <<"DISCOUNT_MISMATCH">> ELSE <<>>

\* the list `errors` in the order the rules append to it
ValidationErrors(regular_price, sale_price, discount_percentage) ==
    Rule1Errors(regular_price, sale_price)
    \o Rule2Errors(regular_price, sale_price)
    \o Rule3Errors(regular_price, sale_price)
    \o Rule4Errors(discount_percentage)
    \o Rule5Errors(regular_price, sale_price, discount_percentage)

\* the suggestion each error appends, and the one of identical prices
SuggestionOf(code) ==
    CASE code = "MISSING_PRICES" -> "Product must have at least one price (regular or sale)"
      [] code = "NEGATIVE_REGULAR_PRICE" -> "Regular price cannot be negative or zero"
      [] code = "NEGATIVE_SALE_PRICE" -> "Sale price cannot be negative or zero"
      [] code = "EXCESSIVE_REGULAR_PRICE" -> "Regular price seems unusually high - please verify"
      [] code = "EXCESSIVE_SALE_PRICE" -> "Sale price seems unusually high - please verify"
      [] code = "INVALID_PRICE_RELATIONSHIP" -> "Sale price cannot be higher than regular price"
      [] code = "NEGATIVE_DISCOUNT" -> "Discount percentage cannot be negative"
      [] code = "EXCESSIVE_DISCOUNT" -> "Discount percentage over 95% seems unusual"
      [] OTHER -> ".1f"

IdenticalSuggestion(regular_price, sale_price) ==
    IF /\ regular_price # None /\ sale_price # None
       /\ ~Gt(sale_price, regular_price)
       /\ IsNum(regular_price) /\ regular_price = sale_price
    THEN <<"Regular and sale prices are identical - consider if discount is needed">>
    ELSE <<>>

Suggestions(regular_price, sale_price, discount_percentage) ==
    MapSeq(Rule1Errors(regular_price, sale_price)
           \o Rule2Errors(regular_price, sale_price)
           \o Rule3Errors(regular_price, sale_price), SuggestionOf)
    \o IdenticalSuggestion(regular_price, sale_price)
    \o MapSeq(Rule4Errors(discount_percentage)
              \o Rule5Errors(regular_price, sale_price, discount_percentage),
              SuggestionOf)

\* variants: a code missing from the list
critical_errors_without_sale == {"MISSING_PRICES", "NEGATIVE_REGULAR_PRICE"}
high_errors_without_relationship == {"EXCESSIVE_REGULAR_PRICE", "EXCESSIVE_SALE_PRICE"}

critical_errors == {"MISSING_PRICES", "NEGATIVE_REGULAR_PRICE", "NEGATIVE_SALE_PRICE"}
high_errors == {"INVALID_PRICE_RELATIONSHIP", "EXCESSIVE_REGULAR_PRICE", "EXCESSIVE_SALE_PRICE"}

_determine_severity(errors) ==
    IF \E i \in 1..Len(errors) : errors[i] \in critical_errors THEN "critical"
    ELSE IF \E i \in 1..Len(errors) : errors[i] \in high_errors THEN "high"
    ELSE "medium"

NoCode == "None"                 \* error_code = None

validate_product_price(regular_price, sale_price, discount_percentage) ==
    LET errors == ValidationErrors(regular_price, sale_price, discount_percentage)
        suggestions == Suggestions(regular_price, sale_price, discount_percentage)
    IN  IF errors # <<>>
        THEN [ is_valid    |-> FALSE,
               error_code  |-> errors[1],
               severity    |-> _determine_severity(errors),
               suggestions |-> suggestions ]
        ELSE [ is_valid    |-> TRUE,
               error_code  |-> NoCode,
               severity    |-> "low",
               suggestions |-> suggestions ]

(***************************************************************************)
(* PriceValidator.validate_product_dataset.  The frame's regular_price is  *)
(* the record's original price, its sale_price the record's current price. *)
(***************************************************************************)
ValidateRow(row, cols) ==
    validate_product_price(row.original_price, row.current_price,
                           IF "discount_percentage" \in cols
                           THEN row.discount_percentage ELSE None)

RowError(row, cols) ==
    [ product_id  |-> row.id,
      name        |-> row.name,
      error_code  |-> ValidateRow(row, cols).error_code,
      severity    |-> ValidateRow(row, cols).severity,
      suggestions |-> ValidateRow(row, cols).suggestions ]

RECURSIVE RowErrors(_, _)
RowErrors(todo, cols) ==
    IF todo = <<>> THEN <<>>
    ELSE (IF ValidateRow(Head(todo), cols).is_valid THEN <<>>
          ELSE <<RowError(Head(todo), cols)>>)
         \o RowErrors(Tail(todo), cols)

validate_product_dataset(rows, cols) ==
    [ total_products    |-> Len(rows),
      valid_products    |-> Len(rows) - Len(RowErrors(rows, cols)),
      invalid_products  |-> Len(RowErrors(rows, cols)),
      validation_errors |-> RowErrors(rows, cols) ]

(***************************************************************************)
(* DiscountAnalyzer.analyze_discounts, constructed without historical data *)
(* (historical_data = None, the default).                                  *)
(***************************************************************************)
critical_discount_threshold == 9000

\* round(x, 2) of the exact quotient num/den of hundredths, den > 0
RoundDiv(num, den) ==
    IF num >= 0 THEN (2 * num + den) \div (2 * den)
    ELSE -((2 * (-num) + den) \div (2 * den))

\* ((regular - sale) / regular * 100).round(2), in 1/100 percent
CalculatedDiscount(regular_price, sale_price) ==
    LET g == Gcd(Abs(regular_price - sale_price), regular_price)
    IN  RoundDiv(((regular_price - sale_price) \div g) * 10000, regular_price \div g)

\* variant: a zero discount counts as a discount
WithMetricsZeroCounts(row, cols) ==
    LET given == IF "discount_percentage" \in cols THEN row.discount_percentage ELSE NaN
        discount == IF /\ ~IsNum(given)
                       /\ IsNum(row.original_price) /\ IsNum(row.current_price)
                       /\ row.original_price > 0
                    THEN CalculatedDiscount(row.original_price, row.current_price)
                    ELSE given
    IN  [ external_id         |-> row.id,
          name                |-> row.name,
          regular_price       |-> row.original_price,
          sale_price          |-> row.current_price,
          discount_percentage |-> discount,
          has_discount        |-> Ge(discount, 0) ]

\* _calculate_discount_metrics on one row: the discount is filled in where
\* it is missing and both prices are present with regular_price > 0
WithMetrics(row, cols) ==
    LET given == IF "discount_percentage" \in cols THEN row.discount_percentage ELSE NaN
        discount == IF /\ ~IsNum(given)
                       /\ IsNum(row.original_price) /\ IsNum(row.current_price)
                       /\ row.original_price > 0
                    THEN CalculatedDiscount(row.original_price, row.current_price)
                    ELSE given
    IN  [ external_id         |-> row.id,
          name                |-> row.name,
          regular_price       |-> row.original_price,
          sale_price          |-> row.current_price,
          discount_percentage |-> discount,
          has_discount        |-> Gt(discount, 0) ]

_calculate_discount_metrics(rows, cols) ==
    [i \in 1..Len(rows) |-> WithMetrics(rows[i], cols)]

PotentialError(product, type, severity) ==
    [ product_id |-> product.external_id,
      name       |-> product.name,
      error_type |-> type,
      severity   |-> severity ]

IsExtremeDiscount(p) == Gt(p.discount_percentage, critical_discount_threshold)
IsInvalidRelationship(p) == Gt(p.sale_price, p.regular_price)
IsNegativePrice(p) == Lt(p.regular_price, 0) \/ Lt(p.sale_price, 0)
IsMissingPrices(p) == ~IsNum(p.regular_price) /\ ~IsNum(p.sale_price)

ErrorsOfMethod(df, Test(_), type, severity) ==
    LET hit == SelectSeq(df, Test)
    IN  [i \in 1..Len(hit) |-> PotentialError(hit[i], type, severity)]

_detect_potential_errors(df) ==
    ErrorsOfMethod(df, IsExtremeDiscount, "extreme_discount", "critical")
    \o ErrorsOfMethod(df, IsInvalidRelationship, "invalid_price_relationship", "high")
    \o ErrorsOfMethod(df, IsNegativePrice, "negative_price", "critical")
    \o ErrorsOfMethod(df, IsMissingPrices, "missing_price_data", "medium")

HasDiscount(p) == p.has_discount

\* df.loc[df['has_discount'], 'discount_percentage'].mean(), rounded to two
\* decimals; 0.0 when the mean is NaN (no discounted row)
AverageDiscount(df) ==
    LET discounted == SelectSeq(df, HasDiscount)
        values == [i \in 1..Len(discounted) |-> discounted[i].discount_percentage]
    IN  IF discounted = <<>> THEN 0 ELSE RoundDiv(SumSeq(values), Len(values))

\* df['discount_percentage'].max() over every row that has a value, rounded
\* to two decimals; 0.0 when it is NaN (no row has a value)
MaxDiscount(df) ==
    LET values == DropNa([i \in 1..Len(df) |-> df[i].discount_percentage])
    IN  IF values = <<>> THEN 0
        ELSE CHOOSE m \in {values[i] : i \in 1..Len(values)} :
                 \A i \in 1..Len(values) : values[i] <= m

discount_bins == <<0, 1000, 2500, 5000, 7500, 9000, 10000>>
discount_labels == <<"0-10%", "10-25%", "25-50%", "50-75%", "75-90%", "90-100%">>

\* variant: the intervals are closed on the left, [bins[k], bins[k+1])
DiscountRangeLeftClosed(discount) ==
    IF \E k \in 1..Len(discount_labels) :
           Ge(discount, discount_bins[k]) /\ Lt(discount, discount_bins[k + 1])
    THEN CHOOSE k \in 1..Len(discount_labels) :
           Ge(discount, discount_bins[k]) /\ Lt(discount, discount_bins[k + 1])
    ELSE 0

\* pd.cut: the label of the right-closed interval (bins[k], bins[k+1]] that
\* holds the discount, 0 when none does
DiscountRange(discount) ==
    IF \E k \in 1..Len(discount_labels) :
           Gt(discount, discount_bins[k]) /\ Le(discount, discount_bins[k + 1])
    THEN CHOOSE k \in 1..Len(discount_labels) :
           Gt(discount, discount_bins[k]) /\ Le(discount, discount_bins[k + 1])
    ELSE 0

\* value_counts() of the categorical column: every label, with its count
DiscountDistribution(df) ==
    [ label \in {discount_labels[k] : k \in 1..Len(discount_labels)} |->
        Cardinality({i \in 1..Len(df) :
            /\ DiscountRange(df[i].discount_percentage) # 0
            /\ discount_labels[DiscountRange(df[i].discount_percentage)] = label}) ]

analyze_discounts(rows, cols) ==
    LET df == _calculate_discount_metrics(rows, cols)
    IN  [ total_products         |-> Len(df),
          products_with_discount |-> Len(SelectSeq(df, HasDiscount)),
          average_discount       |-> AverageDiscount(df),
          max_discount           |-> MaxDiscount(df),
          discount_distribution  |-> DiscountDistribution(df),
          potential_errors       |-> _detect_potential_errors(df) ]

\* the columns analyze_discounts requires; external_id is the row identifier
required_columns == {"name", "original_price", "current_price", "discount_percentage"}

\* `for col in required_columns: if col not in df.columns: df[col] = None`,
\* made on the frame the caller passed
WithRequiredColumns(rows, cols) ==
    [i \in 1..Len(rows) |->
        IF "discount_percentage" \in cols THEN rows[i]
        ELSE [rows[i] EXCEPT !.discount_percentage = None]]

(***************************************************************************)
(* Inputs.                                                                 *)
(***************************************************************************)
MaxFree == 2         \* rows drawn freely from the record domain
MaxFill == 10        \* rows of ordinary products following them

default_min_confidence_x100 == 60
low_min_confidence_x100 == 40
high_min_confidence_x100 == 90

AllColumns == {"name", "category", "current_price", "original_price", "discount_percentage"}

\* <<current_price, original_price, discount_percentage, category>>
PriceCombos ==
    { <<10000, 19999, NaN, "electronics">>,      \* 100.00 / 199.99, no discount given
      <<5000, 19999, 7500, "electronics">>,      \* 50.00 / 199.99, 75 %
      <<10000, 600000, 9500, "electronics">>,    \* 100 / 6000, 95 %
      <<30000, 30000, 0, "electronics">>,        \* 300 / 300, 0 %
      <<5000, 100000, 9500, "electronics">>,     \* 50 / 1000, 95 %
      <<12000, 10000, NaN, NoCategory>>,         \* 120 / 100, no discount given
      <<4000, 60000, 9000, "electronics">>,      \* 40 / 600, 90 %
      <<10000, 20000, 5000, "electronics">>,     \* 100 / 200, 50 %
      <<-100, 10000, 1000, NoCategory>>,         \* negative current price
      <<20000000, 20000000, 0, "electronics">> } \* 200000 / 200000, 0 %

Row(id, name, combo) ==
    [ id                  |-> id,
      name                |-> name,
      category            |-> combo[4],
      current_price       |-> combo[1],
      original_price      |-> combo[2],
      discount_percentage |-> combo[3] ]

\* ordinary products: 90 / 100 at 10 % (flat), or alternately 10 % and 20 %
FillShapes == {"flat", "mixed"}
FillRow(id, k, shape) ==
    [ id                  |-> id,
      name                |-> "Item " \o ToString(k),
      category            |-> "electronics",
      current_price       |-> IF shape = "mixed" /\ k % 2 = 0 THEN 8000 ELSE 9000,
      original_price      |-> 10000,
      discount_percentage |-> IF shape = "mixed" /\ k % 2 = 0 THEN 2000 ELSE 1000 ]

\* the combinations in which the brand signal can matter carry both names
BrandCombos ==
    { c \in PriceCombos : Gt(c[3], 7000) /\ Lt(c[1], 50000) }

RecordDomain == ({"Lamp"} \X PriceCombos) \cup ({"Sony TV"} \X BrandCombos)

FreeRows ==
    UNION { [1..n -> RecordDomain] : n \in 0..MaxFree }

\* the frame of the free rows f followed by fill ordinary rows; identifiers
\* are unique and follow the row order
Frame(f, fill, shape) ==
    [i \in 1..(Len(f) + fill) |->
        IF i <= Len(f) THEN Row(i, f[i][1], f[i][2])
        ELSE FillRow(i, i - Len(f), shape)]

\* no ordinary rows; one short of and exactly MaxFill equal ones; MaxFill mixed
FillKinds ==
    { <<0, "flat">>, <<MaxFill - 1, "flat">>, <<MaxFill, "flat">>, <<MaxFill, "mixed">> }

Frames == { Frame(f, k[1], k[2]) : f \in FreeRows, k \in FillKinds }

\* the frames analysed with the lower confidence gate
LowGateFrames == { Frame(f, k[1], k[2]) : f \in FreeRows,
                                          k \in {<<0, "flat">>, <<MaxFill, "mixed">>} }

(***************************************************************************)
(* The scenario of record A: 50 / 1000 at 95 % in electronics, among       *)
(* ScenarioOthers electronics records whose discounts lie in 5..30 %.      *)
(***************************************************************************)
ScenarioOthers == 20
ScenarioDiscounts == {500, 1000, 2000, 3000}
ScenarioSplit == 5

RecordA(name) == Row(1, name, <<5000, 100000, 9500, "electronics">>)

OtherRow(id, k, discount) ==
    [ id                  |-> id,
      name                |-> "Item " \o ToString(k),
      category            |-> "electronics",
      current_price       |-> 10000 - discount,
      original_price      |-> 10000,
      discount_percentage |-> discount ]

\* A followed by `low` records at discount lo and the others at discount hi
ScenarioFrame(name, low, lo, hi) ==
    [i \in 1..(ScenarioOthers + 1) |->
        IF i = 1 THEN RecordA(name)
        ELSE OtherRow(i, i - 1, IF i - 1 <= low THEN lo ELSE hi)]

ScenarioFrames ==
    { ScenarioFrame(name, low, lo, hi) :
        name \in {"Lamp", "Sony TV"},
        low \in {k \in 0..ScenarioOthers : k % ScenarioSplit = 0},
        lo \in ScenarioDiscounts, hi \in ScenarioDiscounts }

\* records at the edges of the rules, each analysed alone, in a category of
\* exactly average_price_samples and of exactly above_market_samples records,
\* and among MaxFill ordinary records
EdgeCombos ==
    { <<10500, 10000, -500, "electronics">>,     \* 105 / 100, -5 %
      <<4000, 600000, 0, "electronics">>,        \* 40 / 6000, 0 %
      <<10000, 19999, 0, "electronics">>,        \* 100.00 / 199.99, 0 %
      <<5000, 100000, 9500, "furniture">>,       \* 50 / 1000, 95 %, another category
      <<10000, 600000, 9500, "electronics">>,    \* 100 / 6000, 95 %
      <<10000, 20000, 5000, "electronics">>,     \* 100 / 200, 50 %
      <<9000, 90000, 9000, "electronics">> }     \* 90 / 900, 90 %

EdgeFills == {0, average_price_samples - 1, above_market_samples - 1, MaxFill}

EdgeFrames ==
    { Frame(<< <<"Lamp", c>> >>, k, "flat") : c \in EdgeCombos, k \in EdgeFills }

\* a frame without the discount_percentage column
DropDiscount(rows) == [i \in 1..Len(rows) |-> [rows[i] EXCEPT !.discount_percentage = NaN]]

ArgPrices == {None, NaN, -100, 0, 400, 9000, 10000, 30000, 20000000}
ArgDiscounts == {None, NaN, -500, 0, 1000, 1300, 2000, 9500, 9600}
DefaultArgs == <<10000, 9000, 1000>>

\* a record whose name is the empty string, alone and among ordinary records
NoName == ""
NamelessFrames ==
    { Frame(<< <<NoName, c>> >>, k, "flat") :
        c \in { <<5000, 100000, 9500, "electronics">>, <<12000, 10000, NaN, NoCategory>> },
        k \in {0, MaxFill} }

NotRun == [run |-> FALSE]

\* nothing but the analysis of one batch takes place
AnalysisOnly ==
    /\ now = 0
    /\ reports = <<>>
    /\ validation = NotRun
    /\ calc = NotRun
    /\ ran = <<>>
    /\ incoming = <<>>
    /\ products = <<>>
    /\ price_history = <<>>
    /\ outcome = NotRun

Init ==
    /\ pc = "detect_anomalies"
    /\ AnalysisOnly
    /\ anomalies = <<>>
    /\ result = <<>>
    /\ vresult = NotRun
    /\ vreport = NotRun
    /\ analysis = NotRun
    /\ \/ /\ batch \in Frames \cup ScenarioFrames
          /\ columns = AllColumns
          /\ min_confidence = Conf(default_min_confidence_x100)
          /\ args = DefaultArgs
       \/ /\ batch \in LowGateFrames
          /\ columns = AllColumns
          /\ min_confidence = Conf(low_min_confidence_x100)
          /\ args = DefaultArgs
       \/ /\ batch \in EdgeFrames
          /\ columns = AllColumns
          /\ min_confidence \in {Conf(default_min_confidence_x100), Conf(low_min_confidence_x100),
                                 Conf(high_min_confidence_x100)}
          /\ args = DefaultArgs
       \/ /\ batch \in NamelessFrames
          /\ columns = AllColumns
          /\ min_confidence = Conf(default_min_confidence_x100)
          /\ args = DefaultArgs
       \/ /\ \E f \in FreeRows : batch = DropDiscount(Frame(f, 0, "flat"))
          /\ columns = AllColumns \ {"discount_percentage"}
          /\ min_confidence = Conf(default_min_confidence_x100)
          /\ args = DefaultArgs
       \/ /\ batch = Frame(<<>>, 1, "flat")
          /\ columns = AllColumns
          /\ min_confidence = Conf(default_min_confidence_x100)
          /\ args \in ArgPrices \X ArgPrices \X ArgDiscounts

(***************************************************************************)
(* AnomalyDetector.detect_anomalies, one step per method.                  *)
(***************************************************************************)
RulesUnchanged ==
    UNCHANGED <<batch, columns, min_confidence, args, vresult, vreport, analysis,
                report_vars, calc_vars, order_vars, store_vars>>

\* `if products_df.empty: return []`
DetectBegin ==
    /\ pc = "detect_anomalies"
    /\ anomalies' = <<>>
    /\ IF batch = <<>>
       THEN pc' = "validate_product_price" /\ result' = <<>>
       ELSE pc' = "zscore" /\ UNCHANGED result
    /\ RulesUnchanged

DetectZscore ==
    /\ pc = "zscore"
    /\ anomalies' = anomalies \o _detect_zscore_anomalies(batch, columns, min_confidence)
    /\ pc' = "iqr"
    /\ UNCHANGED result
    /\ RulesUnchanged

DetectIqr ==
    /\ pc = "iqr"
    /\ anomalies' = anomalies \o _detect_iqr_anomalies(batch, columns, min_confidence)
    /\ pc' = "fake"
    /\ UNCHANGED result
    /\ RulesUnchanged

DetectFake ==
    /\ pc = "fake"
    /\ anomalies' = anomalies \o _detect_fake_discounts(batch, columns, min_confidence)
    /\ pc' = "tgtbt"
    /\ UNCHANGED result
    /\ RulesUnchanged

DetectTgtbt ==
    /\ pc = "tgtbt"
    /\ anomalies' = anomalies \o _detect_too_good_to_be_true(batch, columns, min_confidence)
    /\ pc' = "manipulation"
    /\ UNCHANGED result
    /\ RulesUnchanged

DetectManipulation ==
    /\ pc = "manipulation"
    /\ anomalies' = anomalies \o _detect_price_manipulation(batch, columns)
    /\ pc' = "aggregate"
    /\ UNCHANGED result
    /\ RulesUnchanged

\* `anomalies = self._deduplicate_anomalies(anomalies)` and the sort
DetectAggregate ==
    /\ pc = "aggregate"
    /\ result' = SortByConfidence(_deduplicate_anomalies(anomalies))
    /\ pc' = "validate_product_price"
    /\ UNCHANGED anomalies
    /\ RulesUnchanged

(***************************************************************************)
(* The rule-based checks on the same input.                                *)
(***************************************************************************)
ValidateProductPrice ==
    /\ pc = "validate_product_price"
    /\ vresult' = [run |-> TRUE, value |-> validate_product_price(args[1], args[2], args[3])]
    /\ pc' = "validate_product_dataset"
    /\ UNCHANGED <<batch, columns, min_confidence, anomalies, result, args, vreport, analysis,
                 report_vars, calc_vars, order_vars, store_vars>>

ValidateProductDataset ==
    /\ pc = "validate_product_dataset"
    /\ vreport' = [run |-> TRUE, value |-> validate_product_dataset(batch, columns)]
    /\ pc' = "analyze_discounts"
    /\ UNCHANGED <<batch, columns, min_confidence, anomalies, result, args, vresult, analysis,
                 report_vars, calc_vars, order_vars, store_vars>>

\* the missing columns are added to the caller's frame before the copy is made
AnalyzeDiscounts ==
    /\ pc = "analyze_discounts"
    /\ analysis' = [run |-> TRUE, value |-> analyze_discounts(batch, columns)]
    /\ batch' = WithRequiredColumns(batch, columns)
    /\ columns' = columns \cup required_columns
    /\ pc' = "done"
    /\ UNCHANGED <<min_confidence, anomalies, result, args, vresult, vreport,
                 report_vars, calc_vars, order_vars, store_vars>>

Next ==
    \/ DetectBegin
    \/ DetectZscore
    \/ DetectIqr
    \/ DetectFake
    \/ DetectTgtbt
    \/ DetectManipulation
    \/ DetectAggregate
    \/ ValidateProductPrice
    \/ ValidateProductDataset
    \/ AnalyzeDiscounts

Spec == Init /\ [][Next]_vars

(***************************************************************************)
(* Properties.                                                             *)
(***************************************************************************)
\* every detector has run: `anomalies` holds all raw findings
DetectorsRun ==
    pc \notin {"detect_anomalies", "zscore", "iqr", "fake", "tgtbt", "manipulation"}

\* detect_anomalies has returned `result`
Returned == DetectorsRun /\ pc # "aggregate"

\* _detect_zscore_anomalies has returned
ZscoreRun == pc \notin {"detect_anomalies", "zscore"}

\* the positions of s holding a finding made for row id
PositionsOf(s, id) == {k \in 1..Len(s) : s[k].pid = id}

FlaggedIds == {anomalies[k].pid : k \in 1..Len(anomalies)}

\* the first raw finding of highest confidence made for row id
BestPosition(id) ==
    CHOOSE k \in PositionsOf(anomalies, id) :
        \A m \in PositionsOf(anomalies, id) :
            \/ anomalies[m].confidence_score < anomalies[k].confidence_score
            \/ anomalies[m].confidence_score = anomalies[k].confidence_score /\ k <= m

\* the first position of a raw finding carrying the name
FirstFlagged(name) ==
    CHOOSE k \in 1..Len(anomalies) :
        /\ anomalies[k].product_name = name
        /\ \A m \in 1..(k - 1) : anomalies[m].product_name # name

(* C1: the list returned by detect_anomalies holds at most one finding per
   product of the batch, however many detectors flagged the product. *)
C1_OnePerProduct ==
    Returned =>
        \A i, j \in 1..Len(result) : i # j => result[i].pid # result[j].pid

\* a product flagged by two detectors is in the returned list
C1_Witness ==
    /\ Returned
    /\ \E k \in 1..Len(result) :
           Cardinality(PositionsOf(anomalies, result[k].pid)) >= 2

(* C2: for every product with at least one raw finding, the returned list
   holds exactly that product's own highest-confidence finding (the first
   one in detector order on ties); two flagged products both remain, also
   when they share a display name. *)
C2_BestPerProductId ==
    Returned =>
        \A id \in FlaggedIds :
            /\ Cardinality(PositionsOf(result, id)) = 1
            /\ \A k \in PositionsOf(result, id) : result[k] = anomalies[BestPosition(id)]

(* C3 as stated: the returned list is in descending confidence order and
   findings of equal confidence are in ascending product id order. *)
C3_TiesByProductId ==
    Returned =>
        \A i, j \in 1..Len(result) :
            i < j =>
                \/ result[i].confidence_score > result[j].confidence_score
                \/ /\ result[i].confidence_score = result[j].confidence_score
                   /\ result[i].pid < result[j].pid

(* C3 amended: the returned list is in descending confidence order, and
   findings of equal confidence are in the order in which their products
   were first flagged (detector order, then row order). *)
C3_TiesByFirstFlagged ==
    Returned =>
        \A i, j \in 1..Len(result) :
            i < j =>
                \/ result[i].confidence_score > result[j].confidence_score
                \/ /\ result[i].confidence_score = result[j].confidence_score
                   /\ FirstFlagged(result[i].product_name)
                        < FirstFlagged(result[j].product_name)

\* two findings of equal confidence are returned, the later row first
C3_Witness ==
    /\ Returned
    /\ \E i, j \in 1..Len(result) :
           /\ i < j
           /\ result[i].confidence_score = result[j].confidence_score
           /\ result[i].pid > result[j].pid

\* the row a finding or an error entry was made for (identifiers follow the
\* row order)
RowOf(id) == batch[id]

DefaultConfig == min_confidence = Conf(default_min_confidence_x100)

HasDiscountColumn == "discount_percentage" \in columns

\* the raw findings of one detector for row id
FindingsOfType(id, type) ==
    {k \in 1..Len(anomalies) : anomalies[k].pid = id /\ anomalies[k].anomaly_type = type}

(* C4: a record whose current (sale) price is negative is reported invalid
   with severity critical by the rule-based checker, whatever its other
   fields are: by validate_product_price, by validate_product_dataset and as
   a critical negative_price entry of the discount analyzer. *)
C4_NegativePriceCritical ==
    /\ (vresult.run /\ Lt(args[2], 0)) =>
           /\ ~vresult.value.is_valid
           /\ vresult.value.severity = "critical"
    /\ vreport.run =>
           \A i \in 1..Len(batch) :
               Lt(batch[i].current_price, 0) =>
                   \E k \in 1..Len(vreport.value.validation_errors) :
                       /\ vreport.value.validation_errors[k].product_id = batch[i].id
                       /\ vreport.value.validation_errors[k].severity = "critical"
    /\ analysis.run =>
           \A i \in 1..Len(batch) :
               Lt(batch[i].current_price, 0) =>
                   \E k \in 1..Len(analysis.value.potential_errors) :
                       /\ analysis.value.potential_errors[k].product_id = batch[i].id
                       /\ analysis.value.potential_errors[k].error_type = "negative_price"
                       /\ analysis.value.potential_errors[k].severity = "critical"

\* a negative sale price with no regular price and an excessive discount
C4_Witness ==
    /\ vresult.run
    /\ args = <<None, -100, 9600>>
    /\ vresult.value.severity = "critical"

\* std_discount == 0: at least two discounted rows, all of one discount
BaselineStdZero ==
    /\ Len(Discounted(batch)) >= 2
    /\ \A i, j \in 1..Len(batch) :
           (IsDiscounted(batch[i]) /\ IsDiscounted(batch[j])) =>
               batch[i].discount_percentage = batch[j].discount_percentage

(* C5: when the standard deviation of the discounts of the discounted rows
   is zero, the Z-score detector returns no finding. *)
C5_NoZscoreWhenStdZero ==
    (ZscoreRun /\ HasDiscountColumn /\ BaselineStdZero) =>
        \A k \in 1..Len(anomalies) : anomalies[k].anomaly_type # "STATISTICAL_OUTLIER"

\* the guard is reached: three or more discounted rows of one discount, and
\* a row without discount next to them
C5_Witness ==
    /\ ZscoreRun /\ HasDiscountColumn /\ BaselineStdZero
    /\ Len(Discounted(batch)) >= 3
    /\ Len(Discounted(batch)) < Len(batch)

(* C6: no detector emits a finding for a record whose discount_percentage
   is absent (NaN, or the column missing). *)
C6_NoFindingWithoutDiscount ==
    DetectorsRun =>
        \A k \in 1..Len(anomalies) :
            HasDiscountColumn /\ IsNum(RowOf(anomalies[k].pid).discount_percentage)

\* z_score >= t/10, for a frame whose std is not zero
ZAtLeast(st, row, t) ==
    /\ ZDev(st, row) > 0
    /\ FracLeq(t * t, 100, ZSqNum(st, row), st.varN)

\* c is min(z/5, 1) in confidence units, for z > 0
IsZOverFive(c, st, row) ==
    LET num == ZSqNum(st, row)
        den == st.varN
        k   == c \div 4
    IN  \/ c = ConfOne /\ FracLeq(25, 1, num, den)
        \/ /\ c < ConfOne /\ c % 4 = 0
           /\ FracLeq(k * k, 4000000, num, den) /\ FracLeq(num, den, k * k, 4000000)
        \/ /\ c < ConfOne /\ c % 4 = 2
           /\ FracLess(k * k, 4000000, num, den)
           /\ FracLess(num, den, (k + 1) * (k + 1), 4000000)

\* the Z-score detector flags the rows for which Fires holds, with
\* confidence min(Z/5, 1), and no other row
ZscoreFlagsExactly(Fires(_, _)) ==
    LET st == ZStats(batch)
    IN  \A i \in 1..Len(batch) :
            LET z == FindingsOfType(i, "STATISTICAL_OUTLIER")
            IN  /\ (Gt(batch[i].discount_percentage, 0) /\ st.n >= 2 /\ st.varN > 0) =>
                       /\ (z # {}) <=> Fires(st, batch[i])
                       /\ \A k \in z : IsZOverFive(anomalies[k].confidence_score, st, batch[i])
                /\ ~Gt(batch[i].discount_percentage, 0) => z = {}

(* C7 as stated: with the default configuration a discounted record whose
   baseline has std > 0 is flagged by the Z-score detector exactly when
   Z > 2.5, with confidence min(Z/5, 1); records without a positive discount
   are never flagged. *)
C7_FlaggedAboveThreshold ==
    (ZscoreRun /\ DefaultConfig /\ HasDiscountColumn) =>
        ZscoreFlagsExactly(LAMBDA st, row : ZExceeds(st, row, 25))

(* C7 amended: with the default configuration a discounted record is
   flagged by the Z-score detector exactly when Z > 2.5 and the confidence
   min(Z/5, 1) reaches min_confidence 0.6, that is exactly when Z >= 3.0
   (Z taken against the mean and std of all discounted rows of the batch);
   the confidence is min(Z/5, 1); records without a positive discount are
   never flagged. *)
C7_FlaggedFromThree ==
    (ZscoreRun /\ DefaultConfig /\ HasDiscountColumn) =>
        ZscoreFlagsExactly(LAMBDA st, row : ZAtLeast(st, row, 30))

\* a record is flagged with a confidence below 1.0
C7_Witness ==
    /\ ZscoreRun /\ DefaultConfig /\ HasDiscountColumn
    /\ \E k \in 1..Len(anomalies) :
           /\ anomalies[k].anomaly_type = "STATISTICAL_OUTLIER"
           /\ anomalies[k].confidence_score < ConfOne

\* the batch is record A followed by ScenarioOthers electronics records with
\* discounts between 5 % and 30 %
IsScenario ==
    /\ Len(batch) = ScenarioOthers + 1
    /\ columns = AllColumns /\ DefaultConfig
    /\ batch[1] = RecordA(batch[1].name)
    /\ \A i \in 2..Len(batch) :
           /\ batch[i].category = "electronics"
           /\ batch[i].discount_percentage >= 500
           /\ batch[i].discount_percentage <= 3000

\* the returned list holds exactly one finding for row id, namely f
ReturnsExactly(id, f) ==
    /\ Cardinality(PositionsOf(result, id)) = 1
    /\ \A k \in PositionsOf(result, id) : result[k] = f

(* C8 as stated: for record A both the too-good-to-be-true and the Z-score
   detector emit a finding, and the returned list holds for A exactly the
   one of the two with the higher confidence. *)
C8_BothDetectorsFire ==
    (Returned /\ IsScenario) =>
        /\ FindingsOfType(1, "STATISTICAL_OUTLIER") # {}
        /\ FindingsOfType(1, "TOO_GOOD_TO_BE_TRUE") # {}
        /\ \E z \in FindingsOfType(1, "STATISTICAL_OUTLIER") :
           \E t \in FindingsOfType(1, "TOO_GOOD_TO_BE_TRUE") :
               ReturnsExactly(1, IF anomalies[t].confidence_score
                                      > anomalies[z].confidence_score
                                 THEN anomalies[t] ELSE anomalies[z])

(* C8 amended: for record A the Z-score detector emits a finding; the
   too-good-to-be-true detector emits one only when A's name carries a
   premium brand (its score is 0.40 otherwise, below the 0.6 gate); the
   returned list holds for A exactly one finding, the one of highest
   confidence among all findings made for A (the first in detector order on
   ties). *)
C8_ZscoreFiresBestKept ==
    (Returned /\ IsScenario) =>
        /\ FindingsOfType(1, "STATISTICAL_OUTLIER") # {}
        /\ (FindingsOfType(1, "TOO_GOOD_TO_BE_TRUE") # {}) <=> IsPremiumBrand(batch[1].name)
        /\ ReturnsExactly(1, anomalies[BestPosition(1)])

\* A without a brand name: flagged by the Z-score detector only of the two
C8_Witness ==
    /\ Returned /\ IsScenario
    /\ ~IsPremiumBrand(batch[1].name)
    /\ \E k \in 1..Len(result) : result[k].pid = 1

\* neither price is below min_price (no critical violation)
NoNegative(regular, sale) == Ge(regular, min_price_cents) /\ Ge(sale, min_price_cents)

RelationshipSuggestion == "Sale price cannot be higher than regular price"

(* C9: a record with both prices present and the sale price above the
   regular price is reported invalid with severity high (no negative price
   being present), whether or not a discount is given: the result carries
   the price-relationship suggestion, its code is INVALID_PRICE_RELATIONSHIP
   unless an excessive price is reported first, and the discount analyzer
   lists an invalid_price_relationship entry of severity high. *)
C9_InvertedPricesHigh ==
    /\ (vresult.run /\ Gt(args[2], args[1]) /\ NoNegative(args[1], args[2])) =>
           /\ ~vresult.value.is_valid
           /\ vresult.value.severity = "high"
           /\ \E k \in 1..Len(vresult.value.suggestions) :
                  vresult.value.suggestions[k] = RelationshipSuggestion
           /\ (args[1] <= max_price_cents /\ args[2] <= max_price_cents) =>
                  vresult.value.error_code = "INVALID_PRICE_RELATIONSHIP"
    /\ vreport.run =>
           \A i \in 1..Len(batch) :
               (/\ Gt(batch[i].current_price, batch[i].original_price)
                /\ NoNegative(batch[i].original_price, batch[i].current_price)) =>
                   \E k \in 1..Len(vreport.value.validation_errors) :
                       /\ vreport.value.validation_errors[k].product_id = batch[i].id
                       /\ vreport.value.validation_errors[k].severity = "high"
    /\ analysis.run =>
           \A i \in 1..Len(batch) :
               Gt(batch[i].current_price, batch[i].original_price) =>
                   \E k \in 1..Len(analysis.value.potential_errors) :
                       /\ analysis.value.potential_errors[k].product_id = batch[i].id
                       /\ analysis.value.potential_errors[k].error_type
                            = "invalid_price_relationship"
                       /\ analysis.value.potential_errors[k].severity = "high"

\* current 120 over original 100 without a discount, in a batch, reported
C9_Witness ==
    /\ analysis.run
    /\ \E i \in 1..Len(batch) :
           /\ batch[i].current_price = 12000 /\ batch[i].original_price = 10000
           /\ ~IsNum(batch[i].discount_percentage)
           /\ \E k \in 1..Len(vreport.value.validation_errors) :
                  /\ vreport.value.validation_errors[k].product_id = batch[i].id
                  /\ vreport.value.validation_errors[k].error_code
                       = "INVALID_PRICE_RELATIONSHIP"

\* current_price == original_price > 0 and discount_percentage == 0
IsUndiscounted(row) ==
    /\ HasDiscountColumn
    /\ IsNum(row.current_price) /\ row.current_price > 0
    /\ row.original_price = row.current_price
    /\ row.discount_percentage = 0

\* nothing is reported for the rows satisfying Quiet, and the report counts
\* them in total_products but not in products_with_discount
NothingReportedFor(Quiet(_)) ==
    LET quiet == {i \in 1..Len(batch) : Quiet(batch[i])}
    IN  /\ DetectorsRun => \A k \in 1..Len(anomalies) : anomalies[k].pid \notin quiet
        /\ vreport.run =>
               \A k \in 1..Len(vreport.value.validation_errors) :
                   vreport.value.validation_errors[k].product_id \notin quiet
        /\ analysis.run =>
               /\ \A k \in 1..Len(analysis.value.potential_errors) :
                      analysis.value.potential_errors[k].product_id \notin quiet
               /\ analysis.value.total_products = Len(batch)
               /\ analysis.value.products_with_discount <= Len(batch) - Cardinality(quiet)

(* C10 as stated: for a record with current_price == original_price > 0 and
   discount_percentage == 0 no anomaly detector emits a finding, the
   discount analyzer lists no potential error, the validator reports it
   valid, and the report counts it in total_products but not in
   products_with_discount. *)
C10_UndiscountedQuiet ==
    /\ NothingReportedFor(IsUndiscounted)
    /\ (vresult.run /\ IsNum(args[1]) /\ args[1] > 0 /\ args[2] = args[1] /\ args[3] = 0) =>
           vresult.value.is_valid

InPriceRange(price) == price >= min_price_cents /\ price <= max_price_cents

IsUndiscountedInRange(row) == IsUndiscounted(row) /\ InPriceRange(row.current_price)

(* C10 amended: the same for a record whose price lies within the
   validator's price range (0.01 to 100000 DKK), the discount analyzer being
   constructed without historical data. *)
C10_UndiscountedInRangeQuiet ==
    /\ NothingReportedFor(IsUndiscountedInRange)
    /\ (/\ vresult.run /\ IsNum(args[1]) /\ InPriceRange(args[1])
        /\ args[2] = args[1] /\ args[3] = 0) =>
           vresult.value.is_valid

\* a 300 / 300 record at 0 % next to a flagged record, all operations run
C10_Witness ==
    /\ analysis.run
    /\ \E i \in 1..Len(batch) :
           IsUndiscountedInRange(batch[i]) /\ batch[i].current_price = 30000
    /\ anomalies # <<>>
    /\ analysis.value.products_with_discount > 0

\* no record of the batch has discount_percentage > 0
NoPositiveDiscount ==
    \A i \in 1..Len(batch) : ~Gt(batch[i].discount_percentage, 0)

(* C11: for a batch in which no record has discount_percentage > 0 (zero,
   absent or otherwise not positive) analyze_discounts yields average
   discount 0, max discount 0, products_with_discount 0 and a distribution
   holding each of the six buckets with count 0. *)
C11_NoDiscountAllZero ==
    (analysis.run /\ NoPositiveDiscount) =>
        /\ analysis.value.average_discount = 0
        /\ analysis.value.max_discount = 0
        /\ analysis.value.products_with_discount = 0
        /\ DOMAIN analysis.value.discount_distribution
             = {"0-10%", "10-25%", "25-50%", "50-75%", "75-90%", "90-100%"}
        /\ \A label \in DOMAIN analysis.value.discount_distribution :
               analysis.value.discount_distribution[label] = 0

\* the discount rule is the only rule the arguments violate
OnlyExcessiveDiscount ==
    /\ Gt(args[3], 9500)
    /\ ValidationErrors(args[1], args[2], args[3]) = <<"EXCESSIVE_DISCOUNT">>

(* C12: a record whose discount_percentage is greater than 95 and that
   violates no other rule is reported invalid by validate_product_price with
   severity high. *)
C12_ExcessiveDiscountHigh ==
    (vresult.run /\ OnlyExcessiveDiscount) =>
        /\ ~vresult.value.is_valid
        /\ vresult.value.severity = "high"

\* |(regular - sale) / regular * 100 - discount| > tolerance, in 1/100 percent
DiffExceeds(regular, sale, discount, tolerance) ==
    \/ SFracLess(discount + tolerance, 10000, regular - sale, regular)
    \/ SFracLess(regular - sale, regular, discount - tolerance, 10000)

MismatchReported ==
    \E k \in 1..Len(vresult.value.suggestions) : vresult.value.suggestions[k] = ".1f"

(* C13: for a record with both prices present, original > 0 and a claimed
   discount, validate_product_price reports a discount mismatch exactly when
   |(original - current) / original * 100 - claimed| is greater than 5
   percentage points, with severity medium when it is the only violation. *)
C13_MismatchBeyondFivePoints ==
    (/\ vresult.run
     /\ IsNum(args[1]) /\ IsNum(args[2]) /\ IsNum(args[3])
     /\ args[1] > 0) =>
        /\ MismatchReported <=> DiffExceeds(args[1], args[2], args[3], 500)
        /\ vresult.value.error_code = "DISCOUNT_MISMATCH" =>
               (MismatchReported /\ vresult.value.severity = "medium")

\* the frame is still as the detectors read it
FrameAsRead == ~analysis.run

IqrRun == pc \notin {"detect_anomalies", "zscore", "iqr"} /\ FrameAsRead
FakeRun == IqrRun /\ pc # "fake"
TgtbtRun == FakeRun /\ pc # "tgtbt"
ManipRun == DetectorsRun /\ FrameAsRead

(* C14: the IQR detector emits a finding for a discounted record exactly
   when there are at least 4 discounted samples, IQR > 0 and the discount
   exceeds upper_bound = Q3 + 1.5 * IQR, with confidence
   min(0.5 + ((discount - upper_bound) / IQR) * 0.2, 1.0); when IQR == 0 it
   emits nothing, whatever min_confidence is. *)
C14_IqrFlagsAboveBound ==
    (IqrRun /\ HasDiscountColumn) =>
        LET enough == Len(Discounted(batch)) >= 4
            st == IF enough THEN IqrStats(batch) ELSE [iqr4 |-> 0, ub40 |-> 0]
        IN  \A i \in 1..Len(batch) :
                LET f == FindingsOfType(i, "IQR_OUTLIER")
                IN  /\ (f # {}) <=> /\ Gt(batch[i].discount_percentage, 0)
                                    /\ enough /\ st.iqr4 > 0
                                    /\ IqrExceeds(st, batch[i])
                    /\ \A k \in f :
                           anomalies[k].confidence_score = IqrConfidence(st, batch[i])

\* the record is passed over by `if not current or not original or
\* discount == 0` (a missing column reads as discount 0)
SkippedForPrices(row) ==
    \/ row.current_price = None \/ row.current_price = 0
    \/ row.original_price = None \/ row.original_price = 0
    \/ ~HasDiscountColumn \/ row.discount_percentage = 0

\* the record is passed over by `if not current or discount == 0`
SkippedForCurrent(row) ==
    \/ row.current_price = None \/ row.current_price = 0
    \/ ~HasDiscountColumn \/ row.discount_percentage = 0

\* the detector of the given type flags exactly the records that are not
\* Skipped and whose Score reaches the gate, with confidence Confidence
FlagsAtGate(type, gate, Skipped(_), Score(_), Confidence(_)) ==
    \A i \in 1..Len(batch) :
        LET f == FindingsOfType(i, type)
        IN  /\ (f # {}) <=> (~Skipped(batch[i]) /\ Score(batch[i]) >= gate)
            /\ \A k \in f :
                   /\ anomalies[k].confidence_score = Confidence(batch[i])
                   /\ anomalies[k].confidence_score >= 0
                   /\ anomalies[k].confidence_score <= ConfOne

NeverSkipped(row) == FALSE

FakeSum(row) == FakeConfidence(batch, columns, row)

(* C15 as stated: the fake-discount detector emits a finding for a record
   exactly when the sum of the points of its matched signals reaches
   min_confidence; the confidence equals that sum and lies within [0, 1]. *)
C15_FakeFlagsAtGate ==
    FakeRun => FlagsAtGate("FAKE_DISCOUNT", min_confidence, NeverSkipped, FakeSum, FakeSum)

(* C15 amended: a record whose current or original price is missing or
   zero, or whose discount is 0, is never flagged; every other record is
   flagged exactly when the sum of the points of its matched signals reaches
   min_confidence; the confidence equals that sum and lies within [0, 1]. *)
C15_FakeFlagsUnskippedAtGate ==
    FakeRun => FlagsAtGate("FAKE_DISCOUNT", min_confidence, SkippedForPrices, FakeSum, FakeSum)

\* a record is flagged, and a record whose signals reach the gate is skipped
C15_Witness ==
    /\ FakeRun
    /\ \E k \in 1..Len(anomalies) : anomalies[k].anomaly_type = "FAKE_DISCOUNT"
    /\ \E i \in 1..Len(batch) :
           SkippedForPrices(batch[i]) /\ FakeSum(batch[i]) >= min_confidence

TgtbtScore(row) == tgtbt_score(row, columns)
TgtbtCapped(row) == Min(tgtbt_score(row, columns), ConfOne)

(* C16 as stated: the too-good-to-be-true detector emits a finding for a
   record exactly when its score (discount tier, savings tier, brand signal,
   near-zero-price signal) reaches min_confidence, and the confidence never
   exceeds 1.0. *)
C16_TgtbtFlagsAtGate ==
    TgtbtRun => FlagsAtGate("TOO_GOOD_TO_BE_TRUE", min_confidence, NeverSkipped,
                            TgtbtScore, TgtbtCapped)

(* C16 amended: a record whose current price is missing or zero, or whose
   discount is 0, is never flagged; every other record is flagged exactly
   when its score reaches min_confidence, with confidence min(score, 1.0). *)
C16_TgtbtFlagsUnskippedAtGate ==
    TgtbtRun => FlagsAtGate("TOO_GOOD_TO_BE_TRUE", min_confidence, SkippedForCurrent,
                            TgtbtScore, TgtbtCapped)

\* a record is flagged with a score above the gate, next to a skipped one
C16_Witness ==
    /\ TgtbtRun
    /\ \E k \in 1..Len(anomalies) :
           /\ anomalies[k].anomaly_type = "TOO_GOOD_TO_BE_TRUE"
           /\ anomalies[k].confidence_score > min_confidence
    /\ \E i \in 1..Len(batch) : SkippedForCurrent(batch[i])

ManipScore(row) == manipulation_score(row, columns)
ManipConfidence(row) == Min(FAdd(manipulation_score(row, columns), 40), ConfOne)

\* every price-manipulation finding has a confidence of at least 0.65
ManipAtLeastBase ==
    \A k \in 1..Len(anomalies) :
        anomalies[k].anomaly_type = "PRICE_MANIPULATION" =>
            anomalies[k].confidence_score >= Conf(65)

(* C17 as stated: the price-manipulation detector emits a finding for a
   record exactly when its raw pattern score is at least 0.25; the
   confidence is the raw score plus 0.4, at least 0.65 and at most 1.0. *)
C17_ManipFlagsAtQuarter ==
    ManipRun =>
        /\ FlagsAtGate("PRICE_MANIPULATION", Conf(25), NeverSkipped,
                       ManipScore, ManipConfidence)
        /\ ManipAtLeastBase

(* C17 amended: a record whose current or original price is missing or
   zero, or whose discount is 0, is never flagged; every other record is
   flagged exactly when its raw pattern score is at least 0.25; the
   confidence is the raw score plus 0.4, at least 0.65 and at most 1.0. *)
C17_ManipFlagsUnskippedAtQuarter ==
    ManipRun =>
        /\ FlagsAtGate("PRICE_MANIPULATION", Conf(25), SkippedForPrices,
                       ManipScore, ManipConfidence)
        /\ ManipAtLeastBase

\* a record is flagged at 0.65, next to a skipped one
C17_Witness ==
    /\ ManipRun
    /\ \E k \in 1..Len(anomalies) :
           /\ anomalies[k].anomaly_type = "PRICE_MANIPULATION"
           /\ anomalies[k].confidence_score = Conf(65)
    /\ \E i \in 1..Len(batch) : SkippedForPrices(batch[i])

\* the categories that occur in the batch
Categories == {batch[i].category : i \in 1..Len(batch)} \ {NoCategory}

\* the confidences of the Z-score findings of row id in a list of findings
ZConfidencesIn(found, id) ==
    {found[k].confidence_score :
        k \in {m \in 1..Len(found) : /\ found[m].pid = id
                                     /\ found[m].anomaly_type = "STATISTICAL_OUTLIER"}}

(* C18: a record that has a category is judged by the Z-score detector
   against the discounted records of its own category only: it is flagged,
   and with the same confidence, exactly as it is when every record of
   another category is removed from the batch. *)
C18_ZscoreWithinCategory ==
    (ZscoreRun /\ FrameAsRead /\ HasDiscountColumn) =>
        \A c \in Categories :
            LET own == SelectSeq(batch, LAMBDA r : r.category = c)
                alone == _detect_zscore_anomalies(own, columns, min_confidence)
            IN  \A i \in 1..Len(batch) :
                    batch[i].category = c =>
                        ZConfidencesIn(anomalies, i) = ZConfidencesIn(alone, i)

\* Indicator 3 evaluated from 5 category records upwards
AboveMarketFromFive(row) ==
    LET cat_prices == CategoryPrices(batch, row.category)
        median_x2  == MedianX2(cat_prices)
    IN  IF /\ row.category # NoCategory
           /\ Len(cat_prices) >= 5
           /\ IsNum(median_x2) /\ IsNum(row.original_price)
           /\ 4 * row.original_price > 5 * median_x2
        THEN 30 ELSE 0

\* Indicator 4 evaluated from 3 category records upwards
AveragePriceFromThree(row) ==
    LET category_prices == CategoryPrices(batch, row.category)
    IN  IF /\ Ge(Discount(row, columns), 6000)
           /\ Len(category_prices) >= 3
           /\ WithinFifthOfMedian(row.current_price, MedianX2(category_prices))
        THEN 25 ELSE 0

FakeSumFromFiveAndThree(row) ==
    AddIf(AddIf(AddIf(AddIf(0, FakeRoundOriginal(row)),
                      FakeRoundDiscount(row, columns)),
                AboveMarketFromFive(row)),
          AveragePriceFromThree(row))

(* C19: in the fake-discount detector the signal 'original price above 2.5x
   the category median' counts whenever the record's category has at least
   5 records and the signal 'discount >= 60 with the price within 20 % of
   the category median' whenever it has at least 3: a record that is not
   skipped is flagged exactly when the sum so obtained reaches
   min_confidence, with that sum as confidence. *)
C19_SignalsFromFiveAndThree ==
    FakeRun => FlagsAtGate("FAKE_DISCOUNT", min_confidence, SkippedForPrices,
                           FakeSumFromFiveAndThree, FakeSumFromFiveAndThree)

(* C20: the analysis leaves the caller's batch unchanged: no operation
   changes its columns or its values. *)
C20_BatchUnchanged == [][batch' = batch /\ columns' = columns]_vars

(***************************************************************************)
(* DiscountAnalyzer.generate_discount_report and                           *)
(* PriceValidator.generate_validation_report.  A call either returns its   *)
(* report or raises; the frame the caller passed is the one                *)
(* analyze_discounts adds its missing columns to.                          *)
(***************************************************************************)
high_discount_threshold == 7500
error_details_shown == 10
high_discount_shown == 20

Raised(exception) == [raised |-> TRUE, exception |-> exception]

First(s, n) == SubSeq(s, 1, Min(n, Len(s)))

IsHighDiscount(p) == Ge(p.discount_percentage, high_discount_threshold)

\* sort_values('discount_percentage', ascending=False): rows of equal
\* discount keep the frame order (the sort of a short frame is an insertion
\* sort)
RECURSIVE InsertByDiscount(_, _)
InsertByDiscount(sorted, p) ==
    IF sorted = <<>> THEN <<p>>
    ELSE IF p.discount_percentage > Head(sorted).discount_percentage THEN <<p>> \o sorted
    ELSE <<Head(sorted)>> \o InsertByDiscount(Tail(sorted), p)

RECURSIVE SortByDiscount(_)
SortByDiscount(s) ==
    IF s = <<>> THEN <<>>
    ELSE InsertByDiscount(SortByDiscount(SubSeq(s, 1, Len(s) - 1)), s[Len(s)])

HighDiscountProduct(p) ==
    [ product_id          |-> p.external_id,
      name                |-> p.name,
      regular_price       |-> p.regular_price,
      sale_price          |-> p.sale_price,
      discount_percentage |-> p.discount_percentage ]

_get_high_discount_products(df) ==
    MapSeq(SortByDiscount(SelectSeq(df, IsHighDiscount)), HighDiscountProduct)

\* the number of errors of each error type that occurs
_categorize_errors(errors) ==
    [ t \in {errors[i].error_type : i \in 1..Len(errors)} |->
        Cardinality({i \in 1..Len(errors) : errors[i].error_type = t}) ]

\* a recommendation: which sentence, and the number it quotes (0 for none)
Recommendation(kind, count) == [kind |-> kind, count |-> count]

OrNone(recommendations, none) ==
    IF recommendations = <<>> THEN <<Recommendation(none, 0)>> ELSE recommendations

\* for total_products > 0; the last test divides by total_products
_generate_recommendations(a, high_discount_count) ==
    OrNone((IF Len(a.potential_errors) > 0
            THEN <<Recommendation("review_potential_errors", Len(a.potential_errors))>>
            ELSE <<>>)
           \o (IF high_discount_count > 0
               THEN <<Recommendation("verify_high_discounts", high_discount_count)>>
               ELSE <<>>)
           \o (IF 10 * a.discount_distribution["90-100%"] > a.total_products
               THEN <<Recommendation("extreme_discount_proportion", 0)>>
               ELSE <<>>)
           \o (IF 10 * a.products_with_discount < a.total_products
               THEN <<Recommendation("low_discount_rate", 0)>>
               ELSE <<>>),
           "no_specific_recommendations")

\* the report made at clock reading t, or the exception of the division by
\* total_products
generate_discount_report(rows, cols, t) ==
    LET a == analyze_discounts(rows, cols)
        high == _get_high_discount_products(_calculate_discount_metrics(rows, cols))
    IN  IF a.total_products = 0 THEN Raised("ZeroDivisionError")
        ELSE [ raised  |-> FALSE,
               summary |->
                 [ total_products         |-> a.total_products,
                   products_with_discount |-> a.products_with_discount,
                   discount_rate          |-> RoundDiv(a.products_with_discount * 10000,
                                                       a.total_products),
                   average_discount       |-> a.average_discount,
                   max_discount           |-> a.max_discount ],
               distribution |-> a.discount_distribution,
               errors |->
                 [ total_errors    |-> Len(a.potential_errors),
                   error_breakdown |-> _categorize_errors(a.potential_errors),
                   error_details   |-> First(a.potential_errors, error_details_shown) ],
               high_discount_products |-> First(high, high_discount_shown),
               recommendations |-> _generate_recommendations(a, Len(high)),
               generated_at |-> t ]

(***************************************************************************)
(* PriceValidator.detect_statistical_anomalies: the values of a column     *)
(* more than three standard deviations from the column's mean, when the    *)
(* column has more than ten values.                                        *)
(***************************************************************************)
outlier_min_samples == 10
statistical_outlier_threshold_x10 == 30

\* n, S and n(nQ - S^2) of the values divided by their common divisor
OutlierStats(values) ==
    LET g == GcdSeq(values)
        e == [i \in 1..Len(values) |-> IF g = 0 THEN 0 ELSE values[i] \div g]
        n == Len(e)
        S == SumSeq(e)
    IN  [ n |-> n, g |-> g, S |-> S, varN |-> n * (n * SumSqSeq(e) - S * S) ]

\* abs((x - mean) / std) > threshold; never when std is zero (the quotient is NaN)
IsOutlier(st, x) ==
    /\ st.varN # 0
    /\ LET dev == st.n * (x \div st.g) - st.S
       IN  FracLess(statistical_outlier_threshold_x10 * statistical_outlier_threshold_x10, 100,
                    (st.n - 1) * dev * dev, st.varN)

\* the frame positions (from 1) of the outliers of a column
OutlierPositions(column) ==
    LET values == DropNa(column)
    IN  IF Len(values) > outlier_min_samples
        THEN {i \in 1..Len(column) : IsNum(column[i]) /\ IsOutlier(OutlierStats(values), column[i])}
        ELSE {}

\* `data.index[idx]` takes the row label idx as a position in the column
\* without its missing values
OutlierIndexError(column) ==
    \E i \in OutlierPositions(column) : i - 1 >= Len(DropNa(column))

ColumnsAnalysed(rows, cols) ==
    << [i \in 1..Len(rows) |-> rows[i].original_price],
       [i \in 1..Len(rows) |-> rows[i].current_price] >>
    \o (IF "discount_percentage" \in cols
        THEN << [i \in 1..Len(rows) |-> rows[i].discount_percentage] >>
        ELSE <<>>)

detect_statistical_anomalies(rows, cols) ==
    LET cs == ColumnsAnalysed(rows, cols)
    IN  IF \E k \in 1..Len(cs) : OutlierIndexError(cs[k]) THEN Raised("IndexError")
        ELSE [ raised |-> FALSE,
               count  |-> SumSeq([k \in 1..Len(cs) |-> Cardinality(OutlierPositions(cs[k]))]) ]

(***************************************************************************)
(* PriceValidator.validate_business_rules: the number of violations.       *)
(***************************************************************************)
IsDiscountOutOfRange(row) ==
    Lt(row.discount_percentage, 0) \/ Gt(row.discount_percentage, 9500)

IsHighValueExtremeDiscount(row) ==
    Gt(row.original_price, 100000) /\ Gt(row.discount_percentage, 8000)

IsRoundDiscount(row) ==
    Gt(row.discount_percentage, 0) /\ row.discount_percentage % 500 = 0

\* the comparison of a column that is not in the frame raises KeyError, the
\* comparison of a column of None raises TypeError
validate_business_rules(rows, cols) ==
    IF "discount_percentage" \notin cols THEN Raised("KeyError")
    ELSE IF \E i \in 1..Len(rows) : rows[i].discount_percentage = None THEN Raised("TypeError")
    ELSE [ raised |-> FALSE,
           count  |-> Len(SelectSeq(rows, IsDiscountOutOfRange))
                      + Len(SelectSeq(rows, IsHighValueExtremeDiscount))
                      + (IF 10 * Len(SelectSeq(rows, IsRoundDiscount)) > 3 * Len(rows)
                         THEN 1 ELSE 0) ]

\* anomaly_summary: the number of invalid products of each primary error code
anomaly_summary(errors) ==
    [ c \in {errors[i].error_code : i \in 1..Len(errors)} |->
        Cardinality({i \in 1..Len(errors) : errors[i].error_code = c}) ]

CountOf(summary, code) == IF code \in DOMAIN summary THEN summary[code] ELSE 0

RecommendIf(summary, code, kind) ==
    IF CountOf(summary, code) > 0
    THEN <<Recommendation(kind, CountOf(summary, code))>> ELSE <<>>

_generate_validation_recommendations(total, invalid, summary) ==
    OrNone((IF total > 0 /\ 2 * invalid > total
            THEN <<Recommendation("high_error_rate", 0)>>
            ELSE IF total > 0 /\ 5 * invalid > total
            THEN <<Recommendation("moderate_error_rate", 0)>>
            ELSE <<>>)
           \o RecommendIf(summary, "MISSING_PRICES", "address_missing_prices")
           \o RecommendIf(summary, "INVALID_PRICE_RELATIONSHIP", "fix_price_relationships")
           \o RecommendIf(summary, "EXCESSIVE_DISCOUNT", "review_high_discounts"),
           "validation_completed")

\* whether generate_validation_report gets as far as analyze_discounts
ReachesAnalysis(rows, cols) ==
    /\ ~detect_statistical_anomalies(rows, cols).raised
    /\ ~validate_business_rules(rows, cols).raised

generate_validation_report(rows, cols, t) ==
    LET v == validate_product_dataset(rows, cols)
        statistical == detect_statistical_anomalies(rows, cols)
        business == validate_business_rules(rows, cols)
        a == analyze_discounts(rows, cols)
        high == _get_high_discount_products(_calculate_discount_metrics(rows, cols))
        summary == anomaly_summary(v.validation_errors)
    IN  IF statistical.raised THEN statistical
        ELSE IF business.raised THEN business
        ELSE IF v.total_products = 0 THEN Raised("ZeroDivisionError")
        ELSE [ raised  |-> FALSE,
               summary |->
                 [ total_products   |-> v.total_products,
                   valid_products   |-> v.valid_products,
                   invalid_products |-> v.invalid_products,
                   validation_rate  |-> RoundDiv(v.valid_products * 10000, v.total_products) ],
               validation_errors |->
                 [ total_errors    |-> Len(v.validation_errors),
                   error_breakdown |-> summary,
                   top_errors      |-> First(v.validation_errors, error_details_shown) ],
               anomalies |->
                 [ statistical    |-> statistical.count,
                   historical     |-> 0,
                   business_rules |-> business.count ],
               discount_analysis |->
                 [ products_with_discount |-> a.products_with_discount,
                   average_discount       |-> a.average_discount,
                   high_discount_products |-> Len(high) ],
               recommendations |->
                 _generate_validation_recommendations(v.total_products, v.invalid_products,
                                                      summary),
               generated_at |-> t ]

(***************************************************************************)
(* The reports of one batch: any number of clock ticks between the calls.  *)
(***************************************************************************)
MaxNow == 2          \* clock readings 0..MaxNow
MaxReports == 2      \* calls of generate_discount_report on the batch

\* the empty batch, one record at an edge of the rules, and a record at 95 %
\* among just more than outlier_min_samples ordinary ones
ReportFrames ==
    { <<>> }
    \cup { Frame(<< <<"Lamp", c>> >>, k, "flat") : c \in EdgeCombos, k \in {0, 1} }
    \cup { Frame(<< <<"Lamp", <<5000, 100000, 9500, "electronics">> >> >>,
                 outlier_min_samples, "flat") }

ReportInit ==
    /\ pc = "reports"
    /\ \/ /\ batch \in ReportFrames
          /\ columns = AllColumns
       \/ /\ \E f \in ReportFrames : batch = DropDiscount(f)
          /\ columns = AllColumns \ {"discount_percentage"}
    /\ min_confidence = Conf(default_min_confidence_x100)
    /\ anomalies = <<>>
    /\ result = <<>>
    /\ args = DefaultArgs
    /\ vresult = NotRun
    /\ vreport = NotRun
    /\ analysis = NotRun
    /\ AnalysisOnly

ReportUnchanged ==
    UNCHANGED <<pc, min_confidence, anomalies, result, args, vresult, vreport, analysis,
                calc_vars, order_vars, store_vars>>

Tick ==
    /\ pc = "reports"
    /\ now < MaxNow
    /\ now' = now + 1
    /\ UNCHANGED <<batch, columns, reports, validation>>
    /\ ReportUnchanged

GenerateDiscountReport ==
    /\ pc = "reports"
    /\ Len(reports) < MaxReports
    /\ reports' = Append(reports, generate_discount_report(batch, columns, now))
    /\ batch' = WithRequiredColumns(batch, columns)
    /\ columns' = columns \cup required_columns
    /\ UNCHANGED <<now, validation>>
    /\ ReportUnchanged

GenerateValidationReport ==
    /\ pc = "reports"
    /\ ~validation.run
    /\ validation' = [run |-> TRUE, value |-> generate_validation_report(batch, columns, now)]
    /\ IF ReachesAnalysis(batch, columns)
       THEN /\ batch' = WithRequiredColumns(batch, columns)
            /\ columns' = columns \cup required_columns
       ELSE UNCHANGED <<batch, columns>>
    /\ UNCHANGED <<now, reports>>
    /\ ReportUnchanged

ReportNext ==
    \/ Tick
    \/ GenerateDiscountReport
    \/ GenerateValidationReport

ReportSpec == ReportInit /\ [][ReportNext]_vars

(***************************************************************************)
(* Properties of the reports.                                              *)
(***************************************************************************)
\* C21: for an empty batch generate_discount_report and
\* generate_validation_report each return a report instead of raising
C21_EmptyBatchReportsReturned ==
    batch = <<>> =>
        /\ \A i \in 1..Len(reports) : ~reports[i].raised
        /\ validation.run => ~validation.value.raised

\* C25: two invocations of generate_discount_report on the same batch, at
\* any two times, return identical reports
C25_ReportsIdentical ==
    \A i, j \in 1..Len(reports) :
        (~reports[i].raised /\ ~reports[j].raised) => reports[i] = reports[j]

(***************************************************************************)
(* Properties of the analysis of incomplete records.                       *)
(***************************************************************************)
LacksName(row) == row.name = NoName

\* C22: a record that lacks its name is excluded from the analysis: no
\* finding and no validation error is reported for it, and it is not counted
\* among the products validated and analysed
C22_NamelessExcluded ==
    pc = "done" =>
        /\ \A i \in 1..Len(batch) : LacksName(batch[i]) =>
              /\ \A k \in 1..Len(result) : result[k].pid # batch[i].id
              /\ \A k \in 1..Len(vreport.value.validation_errors) :
                     vreport.value.validation_errors[k].product_id # batch[i].id
        /\ vreport.value.total_products = Len(batch) - Len(SelectSeq(batch, LacksName))

(***************************************************************************)
(* The five detection methods called on one frame in any order, each at    *)
(* most once; `anomalies` collects what they return, as detect_anomalies   *)
(* does with its fixed order.                                              *)
(***************************************************************************)
Detectors == {"zscore", "iqr", "fake", "tgtbt", "manipulation"}

HasRun(d) == \E i \in 1..Len(ran) : ran[i] = d

\* the records at the edges of the rules, also among MaxFill ordinary records
\* of two different discounts
OrderFrames ==
    EdgeFrames \cup { Frame(<< <<"Lamp", c>> >>, MaxFill, "mixed") : c \in EdgeCombos }

OrderInit ==
    /\ pc = "any_order"
    /\ batch \in OrderFrames
    /\ columns = AllColumns
    /\ min_confidence = Conf(default_min_confidence_x100)
    /\ anomalies = <<>>
    /\ result = <<>>
    /\ args = DefaultArgs
    /\ vresult = NotRun
    /\ vreport = NotRun
    /\ analysis = NotRun
    /\ AnalysisOnly

OrderUnchanged ==
    UNCHANGED <<pc, batch, columns, min_confidence, result, args, vresult, vreport, analysis,
                report_vars, calc_vars, store_vars>>

\* the method d is called and what it returns is collected
Called(d, findings) ==
    /\ pc = "any_order"
    /\ ~HasRun(d)
    /\ anomalies' = anomalies \o findings
    /\ ran' = Append(ran, d)
    /\ OrderUnchanged

CallZscore == Called("zscore", _detect_zscore_anomalies(batch, columns, min_confidence))

\* variant: the IQR method passes over the products already reported
CallIqrUnreported ==
    Called("iqr", SelectSeq(_detect_iqr_anomalies(batch, columns, min_confidence),
                            LAMBDA a : \A k \in 1..Len(anomalies) : anomalies[k].pid # a.pid))

CallIqr == Called("iqr", _detect_iqr_anomalies(batch, columns, min_confidence))

CallFake == Called("fake", _detect_fake_discounts(batch, columns, min_confidence))

CallTgtbt == Called("tgtbt", _detect_too_good_to_be_true(batch, columns, min_confidence))

CallManipulation == Called("manipulation", _detect_price_manipulation(batch, columns))

OrderNext ==
    \/ CallZscore
    \/ CallIqr
    \/ CallFake
    \/ CallTgtbt
    \/ CallManipulation

OrderSpec == OrderInit /\ [][OrderNext]_vars

(***************************************************************************)
(* Properties of the order of detection.                                   *)
(***************************************************************************)
\* what the method d returns when it is the only one called on the frame
RawFindings(d) ==
    CASE d = "zscore" -> _detect_zscore_anomalies(batch, columns, min_confidence)
      [] d = "iqr" -> _detect_iqr_anomalies(batch, columns, min_confidence)
      [] d = "fake" -> _detect_fake_discounts(batch, columns, min_confidence)
      [] d = "tgtbt" -> _detect_too_good_to_be_true(batch, columns, min_confidence)
      [] d = "manipulation" -> _detect_price_manipulation(batch, columns)

RECURSIVE RawFindingsOfAll(_)
RawFindingsOfAll(ds) ==
    IF ds = <<>> THEN <<>> ELSE RawFindings(Head(ds)) \o RawFindingsOfAll(Tail(ds))

\* C23: whatever subset of the detectors has run before and in whatever
\* order, each detector returns the findings it returns when run alone: the
\* findings collected are those of the detectors run, each computed alone
C23_FindingsIndependentOfOrder ==
    pc = "any_order" => anomalies = RawFindingsOfAll(ran)

\* all five detectors have run, the price-manipulation check first and the
\* Z-score method last, and three of them, the IQR method among them, have
\* reported findings
C23_Witness ==
    /\ pc = "any_order"
    /\ Len(ran) = Cardinality(Detectors)
    /\ ran[1] = "manipulation"
    /\ ran[Len(ran)] = "zscore"
    /\ RawFindings("iqr") # <<>>
    /\ Cardinality({d \in Detectors : RawFindings(d) # <<>>}) >= 3
    /\ Len(anomalies) >= 3

(***************************************************************************)
(* Properties of the discount distribution.                                *)
(***************************************************************************)
Analysed == pc = "done" /\ analysis.run

\* the discount of a record as given in the frame
GivenDiscount(row) ==
    IF "discount_percentage" \in columns THEN row.discount_percentage ELSE NaN

\* the discount the analysis works with: the given one, or the one derived
\* from the prices where none is given
EffectiveDiscount(row) == WithMetrics(row, columns).discount_percentage

BucketEdges == <<0, 1000, 2500, 5000, 7500, 9000, 10000>>
BucketLabels == <<"0-10%", "10-25%", "25-50%", "50-75%", "75-90%", "90-100%">>

InBucket(discount, k) == Gt(discount, BucketEdges[k]) /\ Le(discount, BucketEdges[k + 1])

BucketTotal(distribution) ==
    SumSeq([k \in 1..Len(BucketLabels) |-> distribution[BucketLabels[k]]])

\* the distribution holds, for each of the six buckets, the number of
\* records whose discount (taken by Of) lies in it, and so counts each
\* record with 0 < discount <= 100 once and no other record
CountsBy(Of(_)) ==
    LET distribution == analysis.value.discount_distribution
    IN  /\ DOMAIN distribution = {BucketLabels[k] : k \in 1..Len(BucketLabels)}
        /\ \A k \in 1..Len(BucketLabels) :
               distribution[BucketLabels[k]]
               = Cardinality({i \in 1..Len(batch) : InBucket(Of(batch[i]), k)})
        /\ BucketTotal(distribution)
           = Cardinality({i \in 1..Len(batch) : Gt(Of(batch[i]), 0) /\ Le(Of(batch[i]), 10000)})

\* C24 as stated: every record whose given discount_percentage is in
\* (0, 100] is counted in exactly one of the six buckets, the counts sum to
\* the number of such records, and a record whose discount is 0 or absent
\* is counted in no bucket
C24_DistributionCountsGiven == Analysed => CountsBy(GivenDiscount)

\* C24: the same for the discount the analysis works with, which for a
\* record without a given discount is the one derived from its prices
C24_DistributionCountsEffective == Analysed => CountsBy(EffectiveDiscount)

\* a record without a given discount is counted in the bucket of its derived
\* discount, next to a record whose given discount lies on a bucket edge
C24_Witness ==
    /\ Analysed
    /\ \E i, j \in 1..Len(batch) :
          /\ ~IsNum(GivenDiscount(batch[i]))
          /\ InBucket(EffectiveDiscount(batch[i]), 3)
          /\ GivenDiscount(batch[j]) = BucketEdges[4]
    /\ analysis.value.discount_distribution["25-50%"] >= 2

(***************************************************************************)
(* The discount calculation of the processor and of the parser             *)
(* (DataProcessor._calculate_discount_percentage, processor.py, and        *)
(* ProductParser._calculate_discount_percentage, product_parser.py),       *)
(* applied to the same pair (regular_price, sale_price).  A comparison     *)
(* with None raises TypeError, which both methods catch.                   *)
(***************************************************************************)
\* variant: the processor does not compare the sale price with the regular one
_calculate_discount_percentage_unordered(regular_price, sale_price) ==
    IF regular_price = None THEN None
    ELSE IF Le(regular_price, 0) THEN None
    ELSE IF sale_price = None THEN None
    ELSE IF Lt(sale_price, 0) THEN None
    ELSE IF ~IsNum(regular_price) \/ ~IsNum(sale_price) THEN NaN
    ELSE CalculatedDiscount(regular_price, sale_price)

\* processor.py: the two early returns, then round(discount, 2); with a NaN
\* argument no comparison holds and the result is NaN
_calculate_discount_percentage(regular_price, sale_price) ==
    IF regular_price = None THEN None
    ELSE IF Le(regular_price, 0) THEN None
    ELSE IF sale_price = None THEN None
    ELSE IF Lt(sale_price, 0) THEN None
    ELSE IF Gt(sale_price, regular_price) THEN None
    ELSE IF ~IsNum(regular_price) \/ ~IsNum(sale_price) THEN NaN
    ELSE CalculatedDiscount(regular_price, sale_price)

\* product_parser.py: the value inside the two nested tests, None otherwise
parser_calculate_discount_percentage(regular_price, sale_price) ==
    IF regular_price = None \/ sale_price = None THEN None
    ELSE IF Gt(regular_price, 0) /\ Ge(sale_price, 0) /\ Le(sale_price, regular_price)
    THEN CalculatedDiscount(regular_price, sale_price)
    ELSE None

\* the prices the parser's pattern and the processor's _normalize_price can
\* deliver, with None and the values the tests reject
CalcPrices == {None, -100, 0, 1, 400, 5000, 8000, 9000, 10000, 12000, 19999, 100000}

CalcInit ==
    /\ pc = "calculate"
    /\ args \in CalcPrices \X CalcPrices \X {None}
    /\ calc = [processor |-> NotRun, parser |-> NotRun]
    /\ batch = <<>>
    /\ columns = AllColumns
    /\ min_confidence = Conf(default_min_confidence_x100)
    /\ anomalies = <<>>
    /\ result = <<>>
    /\ vresult = NotRun
    /\ vreport = NotRun
    /\ analysis = NotRun
    /\ now = 0
    /\ reports = <<>>
    /\ validation = NotRun
    /\ ran = <<>>
    /\ incoming = <<>>
    /\ products = <<>>
    /\ price_history = <<>>
    /\ outcome = NotRun

CalcUnchanged == UNCHANGED <<pc, analysis_vars, report_vars, order_vars, store_vars>>

ProcessorCalculates ==
    /\ pc = "calculate"
    /\ ~calc.processor.run
    /\ calc' = [calc EXCEPT !.processor =
                   [run |-> TRUE, value |-> _calculate_discount_percentage(args[1], args[2])]]
    /\ CalcUnchanged

ParserCalculates ==
    /\ pc = "calculate"
    /\ ~calc.parser.run
    /\ calc' = [calc EXCEPT !.parser =
                   [run |-> TRUE, value |-> parser_calculate_discount_percentage(args[1], args[2])]]
    /\ CalcUnchanged

CalcNext ==
    \/ ProcessorCalculates
    \/ ParserCalculates

CalcSpec == CalcInit /\ [][CalcNext]_vars

(***************************************************************************)
(* Properties of the discount calculation.                                 *)
(***************************************************************************)
BothCalculated == pc = "calculate" /\ calc.processor.run /\ calc.parser.run

\* regular > 0 and 0 <= sale <= regular
Calculable(regular_price, sale_price) ==
    /\ Gt(regular_price, 0)
    /\ Ge(sale_price, 0)
    /\ Le(sale_price, regular_price)

\* v hundredths of a percent is (regular - sale) / regular * 100 to the
\* nearest hundredth: |v * regular - (regular - sale) * 10^4| <= regular / 2
IsRoundedDiscount(v, regular_price, sale_price) ==
    2 * Abs(v * regular_price - (regular_price - sale_price) * 10000) <= regular_price

\* C26: the calculation returns a value exactly when regular > 0 and
\* 0 <= sale <= regular, the value being (regular - sale) / regular * 100
\* rounded to two decimals and within [0, 100], and None otherwise; the
\* processor's and the parser's implementation return the same result
C26_DiscountCalculation ==
    BothCalculated =>
        /\ calc.processor.value = calc.parser.value
        /\ (calc.processor.value # None) <=> Calculable(args[1], args[2])
        /\ calc.processor.value # None =>
              /\ IsRoundedDiscount(calc.processor.value, args[1], args[2])
              /\ calc.processor.value >= 0
              /\ calc.processor.value <= 10000

\* both have calculated the discount of 100.00 off 199.99, which is rounded
C26_Witness ==
    /\ BothCalculated
    /\ args[1] = 19999
    /\ args[2] = 10000
    /\ calc.parser.value = 5000
    /\ 5000 * args[1] # (args[1] - args[2]) * 10000

(***************************************************************************)
(* Properties of the confidence gate.                                      *)
(***************************************************************************)
\* C27: every finding detect_anomalies returns has a confidence of at least
\* min_confidence and at most 1.0
C27_FindingsWithinGate ==
    Returned =>
        \A k \in 1..Len(result) :
            /\ result[k].confidence_score >= min_confidence
            /\ result[k].confidence_score <= ConfOne

(***************************************************************************)
(* Properties of the primary error code.                                   *)
(***************************************************************************)
\* the severity tier of one error code
TierOf(code) ==
    IF code \in {"MISSING_PRICES", "NEGATIVE_REGULAR_PRICE", "NEGATIVE_SALE_PRICE"}
    THEN "critical"
    ELSE IF code \in {"INVALID_PRICE_RELATIONSHIP", "EXCESSIVE_REGULAR_PRICE",
                      "EXCESSIVE_SALE_PRICE"}
    THEN "high"
    ELSE "medium"

\* C28: validate_product_price returns is_valid = False exactly when a rule
\* is violated; the primary error_code is then a most severe violated rule,
\* its tier being the reported severity; a valid result has error_code None
\* and severity 'low'
C28_PrimaryErrorMostSevere ==
    vresult.run =>
        LET v == vresult.value
            errors == ValidationErrors(args[1], args[2], args[3])
        IN  /\ v.is_valid <=> errors = <<>>
            /\ v.is_valid => (v.error_code = NoCode /\ v.severity = "low")
            /\ ~v.is_valid =>
                  /\ \E i \in 1..Len(errors) : errors[i] = v.error_code
                  /\ TierOf(v.error_code) = v.severity

(***************************************************************************)
(* DataStorage.store_product_data and store_multiple_products (storage.py) *)
(* over DatabaseManager.add_product and add_price_history (models.py).     *)
(* Each of the two methods of the manager commits on its own; a commit may *)
(* fail, and so may the opening of the session.                            *)
(***************************************************************************)
NoText == "None"                  \* a text field that is None
BadTimestamp == -2000000003       \* a scraped_at string fromisoformat rejects

Faults == {"none", "get_session", "product_commit", "price_commit"}

IndexOfExternalId(rows, external_id) ==
    IF \E i \in 1..Len(rows) : rows[i].external_id = external_id
    THEN CHOOSE i \in 1..Len(rows) : rows[i].external_id = external_id
    ELSE 0

\* add_product up to its commit: the row of the external_id is updated, or a
\* new row is added with the next id
WithProduct(rows, p) ==
    LET i == IndexOfExternalId(rows, p.external_id)
    IN  IF i # 0 THEN [rows EXCEPT ![i].name = p.name]
        ELSE Append(rows, [id |-> Len(rows) + 1, external_id |-> p.external_id, name |-> p.name])

\* the commit of add_product fails when the database does, and for a
\* product without a name (the column is NOT NULL); the session is rolled
\* back and the exception raised again
ProductCommitFails(p, fault) == fault = "product_commit" \/ p.name = NoText

HasPrice(p) == p.regular_price # None \/ p.sale_price # None

PriceEntry(rows, p, t) ==
    [ product_id    |-> rows[IndexOfExternalId(rows, p.external_id)].id,
      regular_price |-> p.regular_price,
      sale_price    |-> p.sale_price,
      scraped_at    |-> IF p.scraped_at = None THEN t ELSE p.scraped_at ]

\* the value returned and the two tables after the call
store_product_data(rows, history, p, fault, t) ==
    IF fault = "get_session" \/ ProductCommitFails(p, fault)
    THEN [returned |-> FALSE, products |-> rows, price_history |-> history]
    ELSE IF ~HasPrice(p)
    THEN [returned |-> TRUE, products |-> WithProduct(rows, p), price_history |-> history]
    ELSE IF p.scraped_at = BadTimestamp \/ fault = "price_commit"
    THEN [returned |-> FALSE, products |-> WithProduct(rows, p), price_history |-> history]
    ELSE [ returned      |-> TRUE,
           products      |-> WithProduct(rows, p),
           price_history |-> Append(history, PriceEntry(WithProduct(rows, p), p, t)) ]

MaxIncoming == 2     \* products passed to store_multiple_products

ProductDataDomain ==
    [ external_id   : {"A", "B"},
      name          : {"Lamp", NoText},
      regular_price : {None, 10000},
      sale_price    : {None, 9000},
      scraped_at    : {None, 5, BadTimestamp} ]

StoreInit ==
    /\ pc = "store_multiple_products"
    /\ incoming \in UNION { [1..n -> ProductDataDomain] : n \in 0..MaxIncoming }
    /\ products = <<>>
    /\ price_history = <<>>
    /\ outcome = [run |-> FALSE, successful |-> 0, failed |-> 0]
    /\ batch = <<>>
    /\ columns = AllColumns
    /\ min_confidence = Conf(default_min_confidence_x100)
    /\ anomalies = <<>>
    /\ result = <<>>
    /\ args = DefaultArgs
    /\ vresult = NotRun
    /\ vreport = NotRun
    /\ analysis = NotRun
    /\ now = 0
    /\ reports = <<>>
    /\ validation = NotRun
    /\ calc = NotRun
    /\ ran = <<>>

StoreUnchanged == UNCHANGED <<analysis_vars, report_vars, calc_vars, order_vars>>

\* one turn of the loop of store_multiple_products
StoreProductData ==
    /\ pc = "store_multiple_products"
    /\ incoming # <<>>
    /\ \E fault \in Faults :
          LET p == Head(incoming)
              r == store_product_data(products, price_history, p, fault, now)
          IN  /\ fault = "price_commit" => HasPrice(p)
              /\ products' = r.products
              /\ price_history' = r.price_history
              /\ outcome' = [ run             |-> TRUE,
                              returned        |-> r.returned,
                              product         |-> p,
                              products_before |-> products,
                              history_before  |-> price_history,
                              successful      |-> outcome.successful
                                                  + (IF r.returned THEN 1 ELSE 0),
                              failed          |-> outcome.failed
                                                  + (IF r.returned THEN 0 ELSE 1) ]
    /\ incoming' = Tail(incoming)
    /\ UNCHANGED pc
    /\ StoreUnchanged

\* `return {'successful': successful, 'failed': failed}`
StoreMultipleReturn ==
    /\ pc = "store_multiple_products"
    /\ incoming = <<>>
    /\ pc' = "stored"
    /\ UNCHANGED store_vars
    /\ StoreUnchanged

StoreNext ==
    \/ StoreProductData
    \/ StoreMultipleReturn

StoreSpec == StoreInit /\ [][StoreNext]_vars

(***************************************************************************)
(* Properties of the storage.                                              *)
(***************************************************************************)
\* C29: store_product_data is all-or-nothing: when it returns False the two
\* tables are as they were before the call; when it returns True the
\* product's row is in the products table and, if it carried a price,
\* exactly one price-history row was added; and no product is in the table
\* that store_multiple_products did not count as successful
C29_StoreAllOrNothing ==
    outcome.run =>
        /\ ~outcome.returned =>
              /\ products = outcome.products_before
              /\ price_history = outcome.history_before
        /\ outcome.returned =>
              /\ IndexOfExternalId(products, outcome.product.external_id) # 0
              /\ Len(price_history) = Len(outcome.history_before)
                                      + (IF HasPrice(outcome.product) THEN 1 ELSE 0)
        /\ Len(products) <= outcome.successful

(***************************************************************************)
(* SimpleBilkaMonitor (simple_poc.py): scrape_and_store and                *)
(* cleanup_old_data on the monitor's own products table.  The rows of the  *)
(* table differ only in scraped_at, so the table is the number of rows of  *)
(* each scraped_at; the clock counts half retention periods (3.5 days).    *)
(* `incoming` holds the products of the call in progress: how many are     *)
(* left to insert and how many were stored.                                *)
(***************************************************************************)
MAX_RECORDS == 2000
trim_buffer == 100                \* keep_count = MAX_RECORDS - 100
retention == 2                    \* timedelta(days=7), in clock units

MaxClock == 4                     \* clock readings 0..MaxClock

\* products one scrape_category call returns
BatchSizes == {0, 700, 1300, 2100}

\* the insert loop is followed in steps of the smallest batch: so many rows
\* are inserted at one clock reading
InsertStep == CHOOSE k \in BatchSizes \ {0} : \A n \in BatchSizes \ {0} : k <= n

Times == 0..MaxClock

EmptyTable == [t \in Times |-> 0]

RECURSIVE RowsFrom(_, _)
RowsFrom(table, t) == IF t > MaxClock THEN 0 ELSE table[t] + RowsFrom(table, t + 1)

\* SELECT COUNT(*) FROM products
CountRows(table) == RowsFrom(table, 0)

\* DELETE FROM products WHERE scraped_at < seven_days_ago
DeleteOld(table, t_now) ==
    [t \in Times |-> IF t < t_now - retention THEN 0 ELSE table[t]]

\* variant: the rows are ordered by scraped_at ascending, the oldest are kept
KeepOldest(table, keep_count) ==
    [t \in Times |->
        LET older == CountRows(table) - RowsFrom(table, t)
        IN  IF older >= keep_count THEN 0 ELSE Min(table[t], keep_count - older)]

\* DELETE ... WHERE id NOT IN (SELECT id ... ORDER BY scraped_at DESC LIMIT
\* keep_count): of the rows of one scraped_at those are kept that the newer
\* rows leave room for
KeepNewest(table, keep_count) ==
    [t \in Times |->
        LET newer == RowsFrom(table, t + 1)
        IN  IF newer >= keep_count THEN 0 ELSE Min(table[t], keep_count - newer)]

Trims(table, t_now) == CountRows(DeleteOld(table, t_now)) > MAX_RECORDS

cleanup_old_data(table, t_now) ==
    IF Trims(table, t_now)
    THEN KeepNewest(DeleteOld(table, t_now), MAX_RECORDS - trim_buffer)
    ELSE DeleteOld(table, t_now)

NoCall == [left |-> 0, stored |-> 0, total |-> 0]

MonitorInit ==
    /\ pc = "monitor_idle"
    /\ products = EmptyTable
    /\ incoming = NoCall
    /\ outcome = NotRun
    /\ now = 0
    /\ price_history = <<>>
    /\ batch = <<>>
    /\ columns = AllColumns
    /\ min_confidence = Conf(default_min_confidence_x100)
    /\ anomalies = <<>>
    /\ result = <<>>
    /\ args = DefaultArgs
    /\ vresult = NotRun
    /\ vreport = NotRun
    /\ analysis = NotRun
    /\ reports = <<>>
    /\ validation = NotRun
    /\ calc = NotRun
    /\ ran = <<>>

MonitorUnchanged ==
    UNCHANGED <<analysis_vars, reports, validation, calc_vars, order_vars, price_history>>

\* time passes, during a call or between two calls
ClockAdvances ==
    /\ pc \in {"monitor_idle", "monitor_insert", "monitor_cleanup"}
    /\ now < MaxClock
    /\ now' = now + 1
    /\ UNCHANGED <<pc, incoming, products, outcome>>
    /\ MonitorUnchanged

\* scrape_category returns n products; `if not products: return` an error
ScrapeCategory ==
    /\ pc = "monitor_idle"
    /\ \E n \in BatchSizes :
          IF n = 0
          THEN /\ outcome' = [run |-> TRUE, status |-> "error"]
               /\ UNCHANGED <<pc, incoming>>
          ELSE /\ incoming' = [left |-> n, stored |-> 0, total |-> n]
               /\ pc' = "monitor_insert"
               /\ UNCHANGED outcome
    /\ UNCHANGED <<now, products>>
    /\ MonitorUnchanged

\* the next products of the loop, each inserted with scraped_at =
\* datetime.now(), or skipped when the INSERT raises
InsertProducts ==
    /\ pc = "monitor_insert"
    /\ incoming.left > 0
    /\ LET k == Min(incoming.left, InsertStep)
       IN  \E stored \in {0, k} :
              /\ products' = [products EXCEPT ![now] = @ + stored]
              /\ incoming' = [incoming EXCEPT !.left = @ - k, !.stored = @ + stored]
    /\ UNCHANGED <<pc, now, outcome>>
    /\ MonitorUnchanged

\* the loop is over: the scrape is logged and the inserts are committed
CommitScrape ==
    /\ pc = "monitor_insert"
    /\ incoming.left = 0
    /\ pc' = "monitor_cleanup"
    /\ UNCHANGED <<now, incoming, products, outcome>>
    /\ MonitorUnchanged

\* self.cleanup_old_data() and the return of scrape_and_store
CleanupOldData ==
    /\ pc = "monitor_cleanup"
    /\ products' = cleanup_old_data(products, now)
    /\ outcome' = [ run             |-> TRUE,
                    status          |-> "success",
                    products_stored |-> incoming.stored,
                    total_products  |-> incoming.total,
                    before          |-> products,
                    trimmed         |-> Trims(products, now) ]
    /\ incoming' = NoCall
    /\ pc' = "monitor_idle"
    /\ UNCHANGED now
    /\ MonitorUnchanged

MonitorNext ==
    \/ ClockAdvances
    \/ ScrapeCategory
    \/ InsertProducts
    \/ CommitScrape
    \/ CleanupOldData

MonitorSpec == MonitorInit /\ [][MonitorNext]_vars

(***************************************************************************)
(* Properties of the monitor's table.                                      *)
(***************************************************************************)
\* the last call of scrape_and_store has returned after a trim
Trimmed == pc = "monitor_idle" /\ outcome.run /\ outcome.status = "success" /\ outcome.trimmed

\* the rows of scraped_at t the last cleanup removed
Removed(t) == outcome.before[t] - products[t]

AtMostMaxRecords == pc = "monitor_idle" => CountRows(products) <= MAX_RECORDS

MostRecentRemain == Trimmed => CountRows(products) = MAX_RECORDS - trim_buffer

\* C30 as stated: after every completed scrape_and_store call the table
\* holds at most MAX_RECORDS rows; when the cleanup trims, the 1900 most
\* recently scraped rows remain and no row newer than a removed row is
\* removed
C30_NoNewerThanRemovedRemoved ==
    /\ AtMostMaxRecords
    /\ MostRecentRemain
    /\ Trimmed => \A t, u \in Times : (Removed(t) > 0 /\ u > t) => Removed(u) = 0

\* C30: the same, the rows removed being none of them newer than a row that
\* remains
C30_NoNewerThanKeptRemoved ==
    /\ AtMostMaxRecords
    /\ MostRecentRemain
    /\ Trimmed => \A t, u \in Times : (products[t] > 0 /\ u > t) => Removed(u) = 0

\* a trim has removed rows of two different scrape times and has removed
\* some and kept some of the rows of one scrape time
C30_Witness ==
    /\ Trimmed
    /\ \E t, u \in Times : t < u /\ Removed(t) > 0 /\ Removed(u) > 0 /\ products[u] > 0

====
